---- MODULE Spec2Model ----
(***************************************************************************)
(* Flight-booking front end: the booking wizard of the /book/ page         *)
(* (bookingState, its handlers, the two localStorage slots) and the        *)
(* home-page search form that writes the pending-search slot.              *)
(*                                                                         *)
(* Text typed by the user is a sequence of one-character strings; opaque   *)
(* values (dates, ids) are TLA+ strings.  Money is in integer cents.       *)
(***************************************************************************)
EXTENDS Integers, Sequences, FiniteSets, TLC

-----------------------------------------------------------------------------
(* Bounds of the model *)

\* handleSearch calls that may be awaiting searchFlightsAPI at the same time
MaxInFlight == 1

\* the same, where the submissions of the search form race each other
MaxRacing == 2

\* clicks on an increase button of the booking page's passenger selector,
\* which has no upper limit of its own
MaxCount == 2

-----------------------------------------------------------------------------
(* JavaScript values *)

Null == [kind |-> "null"]
Undefined == [kind |-> "undefined"]
EmptyObject == [kind |-> "object"]

\* truthiness of the object-valued fields (null and undefined are falsy,
\* every object, also {}, is truthy)
Truthy(v) == v # Null /\ v # Undefined

\* a || b
OrElse(a, b) == IF Truthy(a) THEN a ELSE b

\* currentStep values read from storage: NoStep stands for an absent
\* currentStep property; it and 0 are falsy
NoStep == 0 - 1
StepOrElse(n, d) == IF n = NoStep \/ n = 0 THEN d ELSE n

-----------------------------------------------------------------------------
(* Strings *)

Whitespace == {" "}
Digits == {"0", "1", "2", "3", "4", "5", "6", "7", "8", "9"}
UpperCase == <<"A", "B", "C", "D", "E", "F", "G", "H", "I", "J", "K", "L", "M",
               "N", "O", "P", "Q", "R", "S", "T", "U", "V", "W", "X", "Y", "Z">>
LowerCase == <<"a", "b", "c", "d", "e", "f", "g", "h", "i", "j", "k", "l", "m",
               "n", "o", "p", "q", "r", "s", "t", "u", "v", "w", "x", "y", "z">>

RECURSIVE TrimStart(_)
TrimStart(s) ==
    IF s # <<>> /\ Head(s) \in Whitespace THEN TrimStart(Tail(s)) ELSE s

RECURSIVE TrimEnd(_)
TrimEnd(s) ==
    IF s # <<>> /\ s[Len(s)] \in Whitespace
    THEN TrimEnd(SubSeq(s, 1, Len(s) - 1))
    ELSE s

\* String.prototype.trim
Trim(s) == TrimEnd(TrimStart(s))

LowerChar(c) ==
    IF \E i \in DOMAIN UpperCase : UpperCase[i] = c
    THEN LowerCase[CHOOSE i \in DOMAIN UpperCase : UpperCase[i] = c]
    ELSE c

\* String.prototype.toLowerCase
ToLowerCase(s) == [i \in DOMAIN s |-> LowerChar(s[i])]

\* s.replace(/\s/g, '')
RemoveWhitespace(s) == SelectSeq(s, LAMBDA c : c \notin Whitespace)

\* s.slice(-n)
SliceLast(s, n) == IF Len(s) <= n THEN s ELSE SubSeq(s, Len(s) - n + 1, Len(s))

AllDigits(s) == \A i \in DOMAIN s : s[i] \in Digits

DigitValue(c) == CHOOSE n \in 0..9 : <<"0", "1", "2", "3", "4", "5", "6", "7", "8", "9">>[n + 1] = c

\* parseInt(s, 10) of a two-digit string
ParseInt2(s) == 10 * DigitValue(s[1]) + DigitValue(s[2])

-----------------------------------------------------------------------------
(* Validators (Utility Functions) *)

\* [^\s@]+
NoSpaceNoAt(s) == s # <<>> /\ \A i \in DOMAIN s : s[i] \notin Whitespace /\ s[i] # "@"

\* isValidEmail testing for an "@" only
isValidEmailAtOnly(email) == \E i \in DOMAIN email : email[i] = "@"

\* /^[^\s@]+@[^\s@]+\.[^\s@]+$/
isValidEmail(email) ==
    \E i \in DOMAIN email : \E j \in DOMAIN email :
        /\ i < j
        /\ email[i] = "@"
        /\ email[j] = "."
        /\ NoSpaceNoAt(SubSeq(email, 1, i - 1))
        /\ NoSpaceNoAt(SubSeq(email, i + 1, j - 1))
        /\ NoSpaceNoAt(SubSeq(email, j + 1, Len(email)))

isValidCardNumber(number) ==
    LET cleanNumber == RemoveWhitespace(number)
    IN  IF ~(cleanNumber # <<>> /\ AllDigits(cleanNumber))
           \/ Len(cleanNumber) < 13 \/ Len(cleanNumber) > 19
        THEN FALSE
        ELSE AllDigits(cleanNumber) /\ Len(cleanNumber) >= 13 /\ Len(cleanNumber) <= 19

\* isValidExpiryDate refusing the current month
isValidExpiryDateAfterThisMonth(expiry, today) ==
    IF ~(/\ Len(expiry) = 5
         /\ expiry[3] = "/"
         /\ AllDigits(SubSeq(expiry, 1, 2))
         /\ AllDigits(SubSeq(expiry, 4, 5)))
    THEN FALSE
    ELSE LET month == ParseInt2(SubSeq(expiry, 1, 2))
             year == ParseInt2(SubSeq(expiry, 4, 5))
             currentYear == today.year % 100
             currentMonth == today.month
         IN  IF month < 1 \/ month > 12 THEN FALSE
             ELSE IF year < currentYear THEN FALSE
             ELSE IF year = currentYear /\ month <= currentMonth THEN FALSE
             ELSE TRUE

\* today = [year |-> full year, month |-> 1..12], the value of new Date()
isValidExpiryDate(expiry, today) ==
    IF ~(/\ Len(expiry) = 5
         /\ expiry[3] = "/"
         /\ AllDigits(SubSeq(expiry, 1, 2))
         /\ AllDigits(SubSeq(expiry, 4, 5)))
    THEN FALSE
    ELSE LET month == ParseInt2(SubSeq(expiry, 1, 2))
             year == ParseInt2(SubSeq(expiry, 4, 5))
             currentYear == today.year % 100
             currentMonth == today.month
         IN  IF month < 1 \/ month > 12 THEN FALSE
             ELSE IF year < currentYear THEN FALSE
             ELSE IF year = currentYear /\ month < currentMonth THEN FALSE
             ELSE TRUE

\* isValidCVV accepting three digits only
isValidCVVThreeOnly(cvv) == AllDigits(cvv) /\ Len(cvv) = 3

isValidCVV(cvv) == AllDigits(cvv) /\ Len(cvv) >= 3 /\ Len(cvv) <= 4

-----------------------------------------------------------------------------
(* State *)

VARIABLES
    bookingState,     \* the session record (module-level const bookingState)
    lsBookingState,   \* localStorage slot 'bookingState'
    lsFlightSearch,   \* localStorage slot 'flightSearch'
    activeStep,       \* the .booking-step element carrying class "active" (0: none)
    progress,         \* index last passed to updateStepProgress
    flights,          \* the offers rendered by displayFlights, with their click handlers
    noFlights,        \* #noFlights is displayed
    shownTotals,      \* the total prices written by the last handler step: the .price of
                      \* each offer card, the Total Price line of #flightSummary, the
                      \* text of #totalPrice; NoTotal where it wrote none
    passengers,       \* the counts held by the booking page's initPassengerSelector
    pendingSearches,  \* searchData of the handleSearch calls awaiting searchFlightsAPI
    payment,          \* position of handlePayment: idle, processPayment, createBooking
    confirmDisabled,  \* confirmBookingBtn.disabled
    confirmLabel,     \* confirmBookingBtn.innerHTML
    originalText,     \* originalText of the handlePayment call that is awaiting
    toast,            \* message of the showError call of the last handler step, or "none"
    shownReference,   \* textContent of #bookingReference
    cardForm,         \* values of the card inputs of the payment form
    listening,        \* initEventListeners has attached the handlers
    now,              \* the value of new Date(): [year, month]
    storageFull,      \* localStorage.setItem throws (quota exceeded, storage disabled)
    homePc,           \* home page submit handler: idle, saving, redirecting
    homeFormData,     \* formData captured by the home page's timers
    homeToast,        \* message of the home page's last showError or showSuccess, or "none"
    homePassengers,   \* the home page's global passengers
    localPassengers,  \* the older home script: passengers of its initPassengerSelector
    searchBtn,        \* the home page's .search-btn: [innerHTML, disabled]
    homeOriginalText  \* originalText of the home page's submit handler whose timer is pending

domVars == <<activeStep, progress, flights, noFlights, shownTotals, passengers, toast,
             shownReference, cardForm, listening>>
asyncVars == <<pendingSearches, payment, confirmDisabled, confirmLabel, originalText>>
homeVars == <<homePc, homeFormData, homeToast, homePassengers, localPassengers, searchBtn,
              homeOriginalText>>
storageVars == <<lsBookingState, lsFlightSearch>>
envVars == <<now, storageFull>>
vars == <<bookingState, storageVars, domVars, asyncVars, envVars, homeVars>>

-----------------------------------------------------------------------------
(* localStorage and JSON *)

\* getItem of a key never set returns null
Absent == [kind |-> "absent"]
\* text that JSON.parse rejects
Malformed == [kind |-> "malformed"]
\* the text "null"
JsonNull == [kind |-> "jsonnull"]
\* the text of a JSON number or string: every property read gives undefined
JsonScalar == [kind |-> "jsonscalar"]
\* an absent key of a JSON object
Missing == [kind |-> "missing"]

\* JSON.stringify drops the properties whose value is undefined
JsonField(v) == IF v = Undefined THEN Missing ELSE v

\* a property read of the parsed object
ParsedField(v) == IF v = Missing THEN Undefined ELSE v

\* JSON.stringify(bookingState)
JSONStringify(bs) ==
    [kind |-> "json",
     value |-> [currentStep |-> bs.currentStep,
                searchData |-> JsonField(bs.searchData),
                selectedFlight |-> JsonField(bs.selectedFlight),
                passengerData |-> JsonField(bs.passengerData),
                paymentData |-> JsonField(bs.paymentData),
                bookingDetails |-> JsonField(bs.bookingDetails)]]

\* JSON.parse throws on this text
ParseThrows(text) == text = Malformed

\* JSON.parse(text), for a text it accepts: the property reads of the result
JSONParse(text) ==
    IF text.kind = "json"
    THEN [currentStep |-> text.value.currentStep,
          searchData |-> ParsedField(text.value.searchData),
          selectedFlight |-> ParsedField(text.value.selectedFlight),
          passengerData |-> ParsedField(text.value.passengerData),
          paymentData |-> ParsedField(text.value.paymentData),
          bookingDetails |-> ParsedField(text.value.bookingDetails)]
    ELSE [currentStep |-> NoStep,
          searchData |-> Undefined,
          selectedFlight |-> Undefined,
          passengerData |-> Undefined,
          paymentData |-> Undefined,
          bookingDetails |-> Undefined]

-----------------------------------------------------------------------------
(* The session record *)

\* const bookingState = {...}
InitialBookingState ==
    [currentStep |-> 1,
     searchData |-> Null,
     selectedFlight |-> Null,
     passengerData |-> EmptyObject,
     paymentData |-> EmptyObject,
     bookingDetails |-> EmptyObject]

\* the page as served: the Search view is shown, the first progress entry
\* is active, no offers are rendered, the forms are empty
StepElements == 1..5
InitialActiveStep == 1
NoCard == [cardName |-> <<>>, cardNumber |-> <<>>, cardExpiry |-> <<>>, cardCVV |-> <<>>]
\* an element no total has been written into (totals are counted in cents)
NoTotal == 0 - 1
InitialTotals == [flightsResults |-> <<>>, flightSummary |-> NoTotal, totalPrice |-> NoTotal]
NoFlightsHidden == FALSE

\* the part of the page the synchronous wizard code works on
World(bs, ls, active, prog) ==
    [bs |-> bs, ls |-> ls, active |-> active, prog |-> prog, totals |-> InitialTotals,
     threw |-> FALSE]

\* saveBookingState; ok = FALSE: setItem throws (quota exceeded)
saveBookingState(w, ok) ==
    IF ok THEN [w EXCEPT !.ls = JSONStringify(w.bs)] ELSE [w EXCEPT !.threw = TRUE]

\* navigateToStep dropping the selected flight on its way
navigateToStepForgetting(w, step, ok) ==
    IF step \in StepElements
    THEN saveBookingState(
            [w EXCEPT !.active = step,
                      !.prog = step - 1,
                      !.bs = [@ EXCEPT !.currentStep = step, !.selectedFlight = Null]], ok)
    ELSE [w EXCEPT !.active = 0]

\* navigateToStep(step)
navigateToStep(w, step, ok) ==
    IF step \in StepElements
    THEN saveBookingState(
            [w EXCEPT !.active = step,
                      !.prog = step - 1,
                      !.bs = [@ EXCEPT !.currentStep = step]], ok)
    ELSE [w EXCEPT !.active = 0]

\* the try block of initBookingFlow without the line that restores
\* selectedFlight
initBookingFlowTryFlightLost(w, ok) ==
    LET savedState == w.ls
    IN  IF ParseThrows(savedState) \/ savedState = JsonNull
        THEN [w EXCEPT !.threw = TRUE]
        ELSE LET parsedState == JSONParse(savedState)
                 restored ==
                    [currentStep |-> StepOrElse(parsedState.currentStep, 1),
                     searchData |-> IF ~Truthy(w.bs.searchData)
                                    THEN parsedState.searchData
                                    ELSE w.bs.searchData,
                     selectedFlight |-> w.bs.selectedFlight,
                     passengerData |-> OrElse(parsedState.passengerData, EmptyObject),
                     paymentData |-> OrElse(parsedState.paymentData, EmptyObject),
                     bookingDetails |-> OrElse(parsedState.bookingDetails, EmptyObject)]
             IN  navigateToStep([w EXCEPT !.bs = restored], restored.currentStep, ok)

\* initBookingFlow: the body of its try block; threw tells that it ended in
\* an exception (JSON.parse, a property read of null, setItem)
initBookingFlowTry(w, ok) ==
    LET savedState == w.ls
    IN  IF ParseThrows(savedState) \/ savedState = JsonNull
        THEN [w EXCEPT !.threw = TRUE]
        ELSE LET parsedState == JSONParse(savedState)
                 restored ==
                    [currentStep |-> StepOrElse(parsedState.currentStep, 1),
                     searchData |-> IF ~Truthy(w.bs.searchData)
                                    THEN parsedState.searchData
                                    ELSE w.bs.searchData,
                     selectedFlight |-> parsedState.selectedFlight,
                     passengerData |-> OrElse(parsedState.passengerData, EmptyObject),
                     paymentData |-> OrElse(parsedState.paymentData, EmptyObject),
                     bookingDetails |-> OrElse(parsedState.bookingDetails, EmptyObject)]
             IN  navigateToStep([w EXCEPT !.bs = restored], restored.currentStep, ok)

\* initBookingFlow without its try and catch
initBookingFlowUncaught(w, ok) ==
    IF w.ls = Absent
    THEN w
    ELSE initBookingFlowTry(w, ok)

\* initBookingFlow, on the fresh bookingState of a page load: the catch
\* block logs and goes on
initBookingFlow(w, ok) ==
    IF w.ls = Absent
    THEN w
    ELSE [initBookingFlowTry(w, ok) EXCEPT !.threw = FALSE]

\* loadSearchData starting the wizard afresh with the criteria it found
loadSearchDataResetting(bs, slot) ==
    IF slot = Absent
    THEN [bs |-> bs, slot |-> slot]
    ELSE [bs |-> [InitialBookingState EXCEPT !.searchData = slot], slot |-> Absent]

\* loadSearchData without its removeItem
loadSearchDataKeepingSlot(bs, slot) ==
    IF slot = Absent
    THEN [bs |-> bs, slot |-> slot]
    ELSE [bs |-> [bs EXCEPT !.searchData = slot], slot |-> slot]

\* loadSearchData: the new searchData and 'flightSearch' slot.  The slot
\* holds what JSON.stringify made of an object of strings and counts, which
\* JSON.parse gives back property by property; nothing between the parse
\* and removeItem throws on such an object
loadSearchData(bs, slot) ==
    IF slot = Absent
    THEN [bs |-> bs, slot |-> slot]
    ELSE [bs |-> [bs EXCEPT !.searchData = slot], slot |-> Absent]

\* bookingState.searchData?.passengers?.[type] || orElse
CountOr(searchData, type, orElse) ==
    IF /\ Truthy(searchData)
       /\ "passengers" \in DOMAIN searchData
       /\ Truthy(searchData.passengers)
       /\ type \in DOMAIN searchData.passengers
       /\ searchData.passengers[type] # 0
    THEN searchData.passengers[type]
    ELSE orElse

\* initPassengerSelector: the counts its closure starts with
initPassengerSelector(bs) ==
    [adults |-> CountOr(bs.searchData, "adults", 1),
     children |-> CountOr(bs.searchData, "children", 0),
     infants |-> CountOr(bs.searchData, "infants", 0)]

-----------------------------------------------------------------------------
(* What the user types, and what the outside world answers *)

Lagos == <<"L", "a", "g", "o", "s">>
lagos == <<"l", "a", "g", "o", "s">>
Abuja == <<"A", "b", "u", "j", "a">>
Ada == <<"A", "d", "a">>
Phone == <<"0", "8", "0">>
GoodEmail == <<"a", "@", "b", ".", "c">>
BadEmail == <<"a", "@", "b">>
GoodCard == <<"4", "1", "1", "1", " ", "1", "1", "1", "1", " ",
              "1", "1", "1", "1", " ", "1", "2", "3", "4">>
ShortCard == <<"1", "2", "3">>
GoodExpiry == <<"1", "2", "/", "3", "0">>
GoodCVV == <<"9", "8", "7">>

DefaultPassengers == [adults |-> 1, children |-> 0, infants |-> 0]

\* values of #bookingFrom, #bookingTo, #bookingDeparture, #bookingReturn
SearchFormInputs ==
    { [from |-> <<" ">> \o Lagos, to |-> Abuja, departureDate |-> "2026-12-01", returnDate |-> ""],
      [from |-> Abuja, to |-> Lagos, departureDate |-> "2026-12-24", returnDate |-> "2026-12-31"],
      [from |-> Lagos, to |-> lagos, departureDate |-> "2026-12-01", returnDate |-> ""],
      [from |-> Lagos, to |-> Abuja, departureDate |-> "", returnDate |-> ""] }

\* values of #passengerName, #passengerEmail, #passengerPhone, #specialRequests
PassengerFormInputs ==
    { [name |-> Ada \o <<" ">>, email |-> GoodEmail, phone |-> Phone, specialRequests |-> <<>>],
      [name |-> <<" ">>, email |-> GoodEmail, phone |-> Phone, specialRequests |-> <<>>],
      [name |-> Ada, email |-> BadEmail, phone |-> Phone, specialRequests |-> <<>>] }

\* values of #cardName, #cardNumber, #cardExpiry, #cardCVV
PaymentFormInputs ==
    { [cardName |-> Ada, cardNumber |-> GoodCard, cardExpiry |-> GoodExpiry, cardCVV |-> GoodCVV],
      [cardName |-> Ada, cardNumber |-> ShortCard, cardExpiry |-> GoodExpiry, cardCVV |-> GoodCVV] }

\* 'SKB-' + six random characters
BookingReferences == {"SKB-4F7K2Q", "SKB-9ZX1AB"}

\* values of the home page's #fromCity, #toCity, #departureDate, #returnDate
\* and of the active .trip-option
HomeFormInputs ==
    { [from |-> Abuja, to |-> Lagos \o <<" ">>, departureDate |-> "2026-12-24",
       returnDate |-> "", tripType |-> "one-way"],
      [from |-> Lagos, to |-> lagos, departureDate |-> "2026-12-24",
       returnDate |-> "", tripType |-> "one-way"] }

Clocks == { [year |-> 2026, month |-> 11] }

\* searchFlightsAPI: the mock's three offers (price in cents)
Offer(id, price, seats, searchData) ==
    [id |-> id,
     flightNumber |-> id,
     departureCity |-> IF searchData.from # <<>> THEN searchData.from ELSE Abuja,
     arrivalCity |-> IF searchData.to # <<>> THEN searchData.to ELSE Lagos,
     price |-> price,
     availableSeats |-> seats]

searchFlightsAPI(searchData) ==
    << Offer("SB123", 19999, 42, searchData),
       Offer("SB456", 24999, 24, searchData),
       Offer("SB789", 17999, 3, searchData) >>

\* createBooking: reference is the random part of the result
createBooking(reference) ==
    [bookingReference |-> reference,
     bookingId |-> "Date.now()",
     timestamp |-> "new Date().toISOString()",
     status |-> "confirmed"]

-----------------------------------------------------------------------------
(* Page load of the booking page (DOMContentLoaded) *)

\* localStorage.setItem returns normally
SetItemOk == ~storageFull

\* innerHTML of #confirmBookingBtn as the page's markup gives it
TemplateLabel == "Confirm Booking"

\* handlePayment: the innerHTML it gives confirmBtn before the try block
ProcessingLabel == "Processing..."

\* no handlePayment call is awaiting: there is no originalText
NoText == ""

\* the DOMContentLoaded handler on a freshly served page, with the two slots
\* as given: initBookingFlow, loadSearchData, then the init* functions;
\* an exception leaving initBookingFlow would end the handler there
Loaded(slotState, slotSearch, ok) ==
    LET fresh == World(InitialBookingState, slotState, InitialActiveStep, 0)
        flow == initBookingFlow(fresh, ok)
        search == IF flow.threw
                  THEN [bs |-> flow.bs, slot |-> slotSearch]
                  ELSE loadSearchData(flow.bs, slotSearch)
    IN  [bs |-> search.bs, ls |-> flow.ls, slot |-> search.slot,
         active |-> flow.active, prog |-> flow.prog, listening |-> ~flow.threw,
         passengers |-> initPassengerSelector(search.bs)]

DOMContentLoaded(ok) ==
    LET l == Loaded(lsBookingState, lsFlightSearch, ok)
    IN  /\ bookingState' = l.bs
        /\ lsBookingState' = l.ls
        /\ lsFlightSearch' = l.slot
        /\ activeStep' = l.active
        /\ progress' = l.prog
        /\ listening' = l.listening
        /\ passengers' = l.passengers
        /\ flights' = <<>>
        /\ noFlights' = NoFlightsHidden
        /\ shownTotals' = InitialTotals
        /\ toast' = "none"
        /\ shownReference' = ""
        /\ cardForm' = NoCard
        /\ pendingSearches' = <<>>
        /\ payment' = "idle"
        /\ confirmDisabled' = FALSE
        /\ confirmLabel' = TemplateLabel
        /\ originalText' = NoText

\* the user reloads (or reopens) the booking page
PageLoad ==
    /\ DOMContentLoaded(SetItemOk)
    /\ UNCHANGED <<envVars, homeVars>>

-----------------------------------------------------------------------------
(* The wizard's handlers *)

Here == World(bookingState, lsBookingState, activeStep, progress)

\* the synchronous code has run and left the page as w
Becomes(w) ==
    /\ bookingState' = w.bs
    /\ lsBookingState' = w.ls
    /\ activeStep' = w.active
    /\ progress' = w.prog
    /\ shownTotals' = w.totals

\* the controls of a view can be clicked while that view is shown
Shown(step) == listening /\ activeStep = step

\* bookingState.searchData?.passengers || { adults: 1, children: 0, infants: 0 }
PassengersOf(searchData) ==
    IF Truthy(searchData) /\ "passengers" \in DOMAIN searchData
    THEN searchData.passengers
    ELSE DefaultPassengers

\* handleSearch: the searchData object built from the form
SearchDataOf(form, bs) ==
    [from |-> Trim(form.from),
     to |-> Trim(form.to),
     departureDate |-> form.departureDate,
     returnDate |-> form.returnDate,
     passengers |-> PassengersOf(bs.searchData)]

\* handleSearch: the message of the first failing check, "none" if all pass
SearchError(searchData) ==
    IF searchData.from = <<>> THEN "Please enter departure city"
    ELSE IF searchData.to = <<>> THEN "Please enter destination city"
    ELSE IF ToLowerCase(searchData.from) = ToLowerCase(searchData.to)
         THEN "Departure and destination must be different"
    ELSE IF searchData.departureDate = "" THEN "Please select departure date"
    ELSE "none"

\* handleSearch up to its await, with form typed into #bookingSearchForm;
\* nothing in it looks at the calls still awaiting, of which the model lets
\* limit run at a time
SubmitSearchAmong(form, limit) ==
    /\ Shown(1)
    /\ LET searchData == SearchDataOf(form, bookingState)
           error == SearchError(searchData)
       IN  /\ toast' = error
           /\ IF error # "none"
              THEN UNCHANGED <<bookingState, pendingSearches>>
              ELSE /\ Len(pendingSearches) < limit
                   /\ bookingState' = [bookingState EXCEPT !.searchData = searchData]
                   /\ pendingSearches' = Append(pendingSearches, searchData)
    /\ shownTotals' = InitialTotals
    /\ UNCHANGED <<storageVars, activeStep, progress, flights, shownReference, cardForm, listening,
                   noFlights, passengers, payment, confirmDisabled, confirmLabel, originalText,
                   envVars, homeVars>>

SubmitSearch(form) == SubmitSearchAmong(form, MaxInFlight)

\* submit of #bookingSearchForm
HandleSearch == \E form \in SearchFormInputs : SubmitSearch(form)

RemoveAt(seq, i) == SubSeq(seq, 1, i - 1) \o SubSeq(seq, i + 1, Len(seq))

\* what the awaited searchFlightsAPI call ends with
Resolved(found) == [rejected |-> FALSE, flights |-> found]
Rejected == [rejected |-> TRUE, flights |-> <<>>]

\* the .price of each card displayFlights renders
CardTotals(bs, found) ==
    [i \in DOMAIN found |->
        found[i].price * (CountOr(bs.searchData, "adults", 1)
                            + CountOr(bs.searchData, "children", 0))]

\* displayFlights(found): the container is emptied, then either #noFlights
\* is displayed or it is hidden and the cards are rendered
displayFlights(w, found) ==
    [w EXCEPT !.totals = [@ EXCEPT !.flightsResults = CardTotals(w.bs, found)]]

\* handleSearch after its await, the awaited call i having ended with answer:
\* the rest of the try block, the catch block, the finally block
handleSearchResumes(i, answer) ==
    /\ i \in DOMAIN pendingSearches
    /\ IF answer.rejected
       THEN /\ toast' = "Failed to search flights. Please try again."
            /\ shownTotals' = InitialTotals
            /\ UNCHANGED <<bookingState, lsBookingState, activeStep, progress, flights, noFlights>>
       ELSE LET w == navigateToStep(displayFlights(Here, answer.flights), 2, SetItemOk)
            IN  /\ flights' = answer.flights
                /\ noFlights' = (answer.flights = <<>>)
                /\ Becomes(w)
                /\ toast' = IF w.threw THEN "Failed to search flights. Please try again."
                                       ELSE "none"
    /\ pendingSearches' = RemoveAt(pendingSearches, i)
    /\ UNCHANGED <<lsFlightSearch, shownReference, cardForm, listening, passengers, payment,
                   confirmDisabled, confirmLabel, originalText, envVars, homeVars>>

\* searchFlightsAPI has answered call i: the mock resolves with its offers
SearchReturns ==
    \E i \in DOMAIN pendingSearches :
        handleSearchResumes(i, Resolved(searchFlightsAPI(pendingSearches[i])))

\* selectFlight(flightId, flights): click on a rendered offer
SelectFlight ==
    /\ Shown(2)
    /\ \E i \in DOMAIN flights :
        /\ bookingState' = [bookingState EXCEPT !.selectedFlight = flights[i]]
        /\ progress' = 2
    /\ toast' = "none"
    /\ shownTotals' = InitialTotals
    /\ UNCHANGED <<storageVars, activeStep, flights, shownReference, cardForm, listening, noFlights,
                   passengers, asyncVars, envVars, homeVars>>

\* validatePassengerStep without its check
validatePassengerStepSkipped(bs) == TRUE

\* validatePassengerStep refusing whatever is selected
validatePassengerStepRefusing(bs) == FALSE

\* validatePassengerStep
validatePassengerStep(bs) == Truthy(bs.selectedFlight)

\* updatePassengerForm counting the infants as seats
updatePassengerFormWithInfants(w) ==
    IF ~Truthy(w.bs.selectedFlight)
    THEN w
    ELSE LET p == PassengersOf(w.bs.searchData)
         IN  [w EXCEPT !.totals = [@ EXCEPT !.flightSummary =
                        w.bs.selectedFlight.price * (p.adults + p.children + p.infants)]]

\* updatePassengerForm: the Total Price line of #flightSummary
updatePassengerForm(w) ==
    IF ~Truthy(w.bs.selectedFlight)
    THEN w
    ELSE LET p == PassengersOf(w.bs.searchData)
         IN  [w EXCEPT !.totals = [@ EXCEPT !.flightSummary =
                        w.bs.selectedFlight.price * (p.adults + p.children)]]

\* click on #continueToPassengers
ContinueToPassengers ==
    /\ Shown(2)
    /\ IF validatePassengerStep(bookingState)
       THEN LET w == navigateToStep(Here, 3, SetItemOk)
            IN  /\ Becomes(IF w.threw THEN w ELSE updatePassengerForm(w))
                /\ toast' = "none"
       ELSE /\ toast' = "Please select a flight to continue"
            /\ shownTotals' = InitialTotals
            /\ UNCHANGED <<bookingState, lsBookingState, activeStep, progress>>
    /\ UNCHANGED <<lsFlightSearch, flights, shownReference, cardForm, listening, noFlights,
                   passengers, asyncVars, envVars, homeVars>>

\* a click handler that only calls navigateToStep(step)
NavigateOnly(step) ==
    /\ Becomes(navigateToStep(Here, step, SetItemOk))
    /\ toast' = "none"
    /\ UNCHANGED <<lsFlightSearch, flights, shownReference, cardForm, listening, noFlights,
                   passengers, asyncVars, envVars, homeVars>>

\* click on #modifySearchBtn
ModifySearch == Shown(2) /\ NavigateOnly(1)

\* click on #backToSearch
BackToSearch == Shown(2) /\ NavigateOnly(1)

\* click on #backToFlights
BackToFlights == Shown(3) /\ NavigateOnly(2)

\* click on #backToPassenger
BackToPassenger == Shown(4) /\ NavigateOnly(3)

\* validatePassengerDetails without the check of the name
PassengerErrorNameUnchecked(form) ==
    IF Trim(form.email) = <<>> THEN "Please enter email address"
    ELSE IF ~isValidEmail(Trim(form.email)) THEN "Please enter a valid email address"
    ELSE IF Trim(form.phone) = <<>> THEN "Please enter phone number"
    ELSE "none"

\* validatePassengerDetails: the message of the first failing check
PassengerError(form) ==
    IF Trim(form.name) = <<>> THEN "Please enter passenger name"
    ELSE IF Trim(form.email) = <<>> THEN "Please enter email address"
    ELSE IF ~isValidEmail(Trim(form.email)) THEN "Please enter a valid email address"
    ELSE IF Trim(form.phone) = <<>> THEN "Please enter phone number"
    ELSE "none"

\* validatePassengerDetails: the passengerData it stores
PassengerDataOf(form) ==
    [name |-> Trim(form.name),
     email |-> Trim(form.email),
     phone |-> Trim(form.phone),
     specialRequests |-> Trim(form.specialRequests)]

\* validatePassengerDetails storing the form before it checks it
validatePassengerDetailsStoringFirst(bs, form) ==
    [bs EXCEPT !.passengerData = PassengerDataOf(form)]

\* validatePassengerDetails: the session record it leaves
validatePassengerDetails(bs, form) ==
    IF PassengerError(form) # "none"
    THEN bs
    ELSE [bs EXCEPT !.passengerData = PassengerDataOf(form)]

\* updatePaymentSummary: the text of #totalPrice and its call of
\* updateStepProgress
updatePaymentSummary(w) ==
    IF ~Truthy(w.bs.selectedFlight) \/ ~Truthy(w.bs.passengerData)
    THEN w
    ELSE LET p == PassengersOf(w.bs.searchData)
         IN  [w EXCEPT !.prog = 3,
                       !.totals = [@ EXCEPT !.totalPrice =
                            w.bs.selectedFlight.price * (p.adults + p.children)]]

\* the click handler of #continueToPayment, with form typed into the
\* passenger form
ClickContinueToPayment(form) ==
    /\ Shown(3)
    /\ LET error == PassengerError(form)
           saved == [Here EXCEPT !.bs = validatePassengerDetails(bookingState, form)]
       IN  /\ toast' = error
           /\ IF error # "none"
              THEN /\ bookingState' = saved.bs
                   /\ shownTotals' = InitialTotals
                   /\ UNCHANGED <<lsBookingState, activeStep, progress>>
              ELSE LET w == navigateToStep(saved, 4, SetItemOk)
                   IN  Becomes(IF w.threw THEN w ELSE updatePaymentSummary(w))
    /\ UNCHANGED <<lsFlightSearch, flights, shownReference, cardForm, listening, noFlights,
                   passengers, asyncVars, envVars, homeVars>>

\* click on #continueToPayment
ContinueToPayment == \E form \in PassengerFormInputs : ClickContinueToPayment(form)

\* validatePaymentForm: the values it reads from the form
PaymentFieldsOf(form) ==
    [cardName |-> Trim(form.cardName),
     cardNumber |-> RemoveWhitespace(Trim(form.cardNumber)),
     cardExpiry |-> Trim(form.cardExpiry),
     cardCVV |-> Trim(form.cardCVV)]

\* validatePaymentForm: the message of the first failing check
PaymentError(form, date) ==
    LET f == PaymentFieldsOf(form)
    IN  IF f.cardName = <<>> THEN "Please enter cardholder name"
        ELSE IF f.cardNumber = <<>> THEN "Please enter card number"
        ELSE IF ~isValidCardNumber(f.cardNumber) THEN "Please enter a valid card number"
        ELSE IF f.cardExpiry = <<>> THEN "Please enter expiry date"
        ELSE IF ~isValidExpiryDate(f.cardExpiry, date)
             THEN "Please enter a valid expiry date (MM/YY)"
        ELSE IF f.cardCVV = <<>> THEN "Please enter CVV"
        ELSE IF ~isValidCVV(f.cardCVV) THEN "Please enter a valid CVV"
        ELSE "none"

\* validatePaymentForm storing cardNumber where it stores cardNumber.slice(-4)
PaymentDataOfUnsliced(form) ==
    LET f == PaymentFieldsOf(form)
    IN  [cardName |-> f.cardName,
         cardLastFour |-> f.cardNumber,
         expiryDate |-> f.cardExpiry]

\* validatePaymentForm: the paymentData it stores
PaymentDataOf(form) ==
    LET f == PaymentFieldsOf(form)
    IN  [cardName |-> f.cardName,
         cardLastFour |-> SliceLast(f.cardNumber, 4),
         expiryDate |-> f.cardExpiry]

\* s.replace(/\D/g, '')
RemoveNonDigits(s) == SelectSeq(s, LAMBDA c : c \in Digits)

\* digits.replace(/(\d{4})(?=\d)/g, '$1 '): a space after every four digits
\* that another digit follows
GroupFours(digits) ==
    LET spaces == IF digits = <<>> THEN 0 ELSE (Len(digits) - 1) \div 4
    IN  [k \in 1..(Len(digits) + spaces) |->
            IF k % 5 = 0 THEN " " ELSE digits[k - (k \div 5)]]

\* formatCardNumber without its substring(0, 19)
formatCardNumberUncut(value) == GroupFours(RemoveNonDigits(RemoveWhitespace(value)))

\* formatCardNumber: the value it gives #cardNumber, from the value typed
formatCardNumber(value) ==
    LET grouped == GroupFours(RemoveNonDigits(RemoveWhitespace(value)))
    IN  SubSeq(grouped, 1, IF Len(grouped) < 19 THEN Len(grouped) ELSE 19)

\* the input handler of #cardNumber, the field holding text after the edit
InputCardNumber(text) ==
    /\ Shown(4)
    /\ cardForm' = [cardForm EXCEPT !.cardNumber = formatCardNumber(text)]
    /\ toast' = "none"
    /\ shownTotals' = InitialTotals
    /\ UNCHANGED <<bookingState, storageVars, activeStep, progress, flights, noFlights,
                   passengers, shownReference, listening, asyncVars, envVars, homeVars>>

\* handlePayment starting createBooking without awaiting processPayment
FirstAwaitUnpaid == "createBooking"

\* handlePayment: the call it awaits first once the form is valid
FirstAwait == "processPayment"

\* handlePayment whose finally block leaves the button as the try block left it
handlePaymentFinallyMissing(original) == [innerHTML |-> ProcessingLabel, disabled |-> TRUE]

\* handlePayment: the finally block
handlePaymentFinally(original) == [innerHTML |-> original, disabled |-> FALSE]

\* handlePayment leaving the button as it is
ConfirmBtnLeftEnabled == FALSE

\* handlePayment: confirmBtn.disabled = true before the try block
ConfirmBtnDisabled == TRUE

\* handlePayment up to its first await, with form typed into the card inputs
ClickConfirmBooking(form) ==
    /\ Shown(4)
    /\ ~confirmDisabled
    /\ LET error == PaymentError(form, now)
       IN  /\ cardForm' = form
           /\ toast' = error
           /\ IF error # "none"
              THEN UNCHANGED <<bookingState, payment, confirmDisabled, confirmLabel,
                               originalText>>
              ELSE /\ bookingState' = [bookingState EXCEPT !.paymentData = PaymentDataOf(form)]
                   /\ payment' = FirstAwait
                   /\ originalText' = confirmLabel
                   /\ confirmLabel' = ProcessingLabel
                   /\ confirmDisabled' = ConfirmBtnDisabled
    /\ shownTotals' = InitialTotals
    /\ UNCHANGED <<storageVars, activeStep, progress, flights, shownReference, listening, noFlights,
                   passengers, pendingSearches, envVars, homeVars>>

\* click on #confirmBookingBtn
HandlePayment == \E form \in PaymentFormInputs : ClickConfirmBooking(form)

\* processPayment resolves; handlePayment goes on to await createBooking
PaymentProcessed ==
    /\ payment = "processPayment"
    /\ payment' = "createBooking"
    /\ UNCHANGED <<bookingState, storageVars, domVars, pendingSearches, confirmDisabled,
                   confirmLabel, originalText, envVars, homeVars>>

\* updateConfirmation: the reference it shows and its call of updateStepProgress
updateConfirmation(w, shown) ==
    IF ~Truthy(w.bs.bookingDetails) \/ ~Truthy(w.bs.selectedFlight)
       \/ ~Truthy(w.bs.passengerData)
    THEN [w |-> w, shown |-> shown]
    ELSE [w |-> [w EXCEPT !.prog = 4], shown |-> w.bs.bookingDetails.bookingReference]

\* handlePayment after createBooking resolved with bookingResult: the rest of
\* the try block, the catch block, the finally block
BookingCreated ==
    /\ payment = "createBooking"
    /\ \E reference \in BookingReferences :
        LET bookingResult == createBooking(reference)
            updated == [Here EXCEPT !.bs = [@ EXCEPT !.bookingDetails = bookingResult,
                                                     !.currentStep = 5]]
            saved == saveBookingState(updated, SetItemOk)
            moved == IF saved.threw THEN saved ELSE navigateToStep(saved, 5, SetItemOk)
            confirmed == IF moved.threw
                         THEN [w |-> moved, shown |-> shownReference]
                         ELSE updateConfirmation(moved, shownReference)
        IN  /\ Becomes(confirmed.w)
            /\ shownReference' = confirmed.shown
            /\ toast' = IF moved.threw THEN "Payment failed. Please try again." ELSE "none"
    /\ payment' = "idle"
    /\ LET confirmBtn == handlePaymentFinally(originalText)
       IN  /\ confirmLabel' = confirmBtn.innerHTML
           /\ confirmDisabled' = confirmBtn.disabled
    /\ originalText' = NoText
    /\ UNCHANGED <<lsFlightSearch, flights, cardForm, listening, noFlights, passengers,
                   pendingSearches, envVars, homeVars>>

\* the passenger selector of the search form
PassengerTypes == {"adults", "children", "infants"}
BtnActions == {"increase", "decrease"}

\* the click handler of a .passenger-btn without its test of the infants
passengerBtnClickUnguarded(p, type, action) ==
    IF action = "increase"
    THEN [p EXCEPT ![type] = @ + 1]
    ELSE LET min == IF type = "adults" THEN 1 ELSE 0
         IN  IF p[type] > min THEN [p EXCEPT ![type] = @ - 1] ELSE p

\* the click handler of a .passenger-btn: the counts it leaves
passengerBtnClick(p, type, action) ==
    IF action = "increase"
    THEN IF type = "infants" /\ p.infants >= p.adults
         THEN p
         ELSE [p EXCEPT ![type] = @ + 1]
    ELSE LET min == IF type = "adults" THEN 1 ELSE 0
         IN  IF p[type] > min THEN [p EXCEPT ![type] = @ - 1] ELSE p

\* click on the .passenger-btn of type and action; the handler runs whatever
\* the disabled attribute createPassengerOptions gave the button
PassengerBtn(type, action) ==
    /\ Shown(1)
    /\ passengerBtnClick(passengers, type, action)[type] <= MaxCount
    /\ passengers' = passengerBtnClick(passengers, type, action)
    /\ toast' = "none"
    /\ shownTotals' = InitialTotals
    /\ UNCHANGED <<bookingState, storageVars, activeStep, progress, flights, noFlights,
                   shownReference, cardForm, listening, asyncVars, envVars, homeVars>>

\* click on a .passenger-btn
ClickPassengerBtn ==
    \E type \in PassengerTypes, action \in BtnActions : PassengerBtn(type, action)

\* { ...bookingState.searchData, passengers: { ...passengers } }
WithPassengers(searchData, p) ==
    IF Truthy(searchData)
    THEN [f \in DOMAIN searchData \cup {"passengers"} |->
            IF f = "passengers" THEN p ELSE searchData[f]]
    ELSE [passengers |-> p]

\* click on #applyPassengerChanges
ApplyPassengerChanges ==
    /\ Shown(1)
    /\ bookingState' = [bookingState EXCEPT !.searchData = WithPassengers(@, passengers)]
    /\ toast' = "none"
    /\ shownTotals' = InitialTotals
    /\ UNCHANGED <<storageVars, activeStep, progress, flights, noFlights, passengers,
                   shownReference, cardForm, listening, asyncVars, envVars, homeVars>>

-----------------------------------------------------------------------------
(* The home page's passenger selector (initPassengerSelector) *)

\* the most adults, and the most children, the home page lets one select
HomeMax == 9

\* the click handler of a .passenger-btn of the home page: the counts it
\* leaves
homePassengerBtnClick(p, type, action) ==
    IF action = "increase"
    THEN LET max == IF type = "infants" THEN p.adults ELSE HomeMax
         IN  IF p[type] < max THEN [p EXCEPT ![type] = @ + 1] ELSE p
    ELSE LET min == IF type = "adults" THEN 1 ELSE 0
         IN  IF p[type] > min THEN [p EXCEPT ![type] = @ - 1] ELSE p

\* click on the home page's .passenger-btn of type and action
HomePassengerBtn(type, action) ==
    /\ homePassengers' = homePassengerBtnClick(homePassengers, type, action)
    /\ UNCHANGED <<bookingState, storageVars, domVars, asyncVars, envVars,
                   homePc, homeFormData, homeToast, localPassengers, searchBtn,
                   homeOriginalText>>

\* click on a .passenger-btn of the home page
ClickHomePassengerBtn ==
    \E type \in PassengerTypes, action \in BtnActions : HomePassengerBtn(type, action)

-----------------------------------------------------------------------------
(* The home page's search form (initFlightSearchForm) *)

\* the formData object built from the form; returnDate is added for a
\* round trip only
HomeFormDataOf(form) ==
    LET formData == [from |-> Trim(form.from),
                     to |-> Trim(form.to),
                     departureDate |-> form.departureDate,
                     tripType |-> form.tripType,
                     passengers |-> homePassengers]
    IN  IF form.tripType = "round-trip"
        THEN [f \in DOMAIN formData \cup {"returnDate"} |->
                IF f = "returnDate" THEN form.returnDate ELSE formData[f]]
        ELSE formData

\* the home page's check of the cities without toLowerCase
HomeFormErrorCaseSensitive(form) ==
    IF Trim(form.from) = <<>> THEN "Please enter departure city"
    ELSE IF Trim(form.to) = <<>> THEN "Please enter destination city"
    ELSE IF Trim(form.from) = Trim(form.to)
         THEN "Departure and destination cities must be different"
    ELSE IF form.departureDate = "" THEN "Please select departure date"
    ELSE IF form.tripType = "round-trip" /\ form.returnDate = ""
         THEN "Please select a return date for round trip"
    ELSE "none"

\* the message of the first failing check, "none" if all pass
HomeFormError(form) ==
    IF Trim(form.from) = <<>> THEN "Please enter departure city"
    ELSE IF Trim(form.to) = <<>> THEN "Please enter destination city"
    ELSE IF ToLowerCase(Trim(form.from)) = ToLowerCase(Trim(form.to))
         THEN "Departure and destination cities must be different"
    ELSE IF form.departureDate = "" THEN "Please select departure date"
    ELSE IF form.tripType = "round-trip" /\ form.returnDate = ""
         THEN "Please select a return date for round trip"
    ELSE "none"

\* innerHTML of .search-btn as the home page's markup gives it
HomeTemplateLabel == "Search Flights"

\* .search-btn as the home page is served
SearchBtnServed == [innerHTML |-> HomeTemplateLabel, disabled |-> FALSE]

\* the submit handler: .search-btn once the checks have passed
SearchBtnSearching == [innerHTML |-> "Searching...", disabled |-> TRUE]

\* the first timer's catch block leaving .search-btn as it is
homeSaveCatchSilent(original) == SearchBtnSearching

\* the first timer's catch block: what it makes of .search-btn
homeSaveCatch(original) == [innerHTML |-> original, disabled |-> FALSE]

\* the submit handler of #flightSearchForm, with form typed in: an accepted
\* submission disables .search-btn and starts the first timer
SubmitHomeSearch(form) ==
    /\ ~searchBtn.disabled
    /\ IF HomeFormError(form) # "none"
       THEN /\ homeToast' = HomeFormError(form)
            /\ UNCHANGED <<homePc, homeFormData, searchBtn, homeOriginalText>>
       ELSE /\ homePc' = "saving"
            /\ homeFormData' = HomeFormDataOf(form)
            /\ homeOriginalText' = searchBtn.innerHTML
            /\ searchBtn' = SearchBtnSearching
            /\ UNCHANGED homeToast
    /\ UNCHANGED <<bookingState, storageVars, domVars, asyncVars, envVars, homePassengers,
                   localPassengers>>

\* submit of #flightSearchForm
HomeSubmit == \E form \in HomeFormInputs : SubmitHomeSearch(form)

\* the first timer fires: setItem('flightSearch', ...), which may throw
HomeSave ==
    /\ homePc = "saving"
    /\  IF SetItemOk
        THEN /\ lsFlightSearch' = homeFormData
             /\ homePc' = "redirecting"
             /\ homeToast' = "Searching for flights... Redirecting to results"
             /\ UNCHANGED <<homeFormData, searchBtn, homeOriginalText>>
        ELSE /\ homePc' = "idle"
             /\ homeFormData' = Null
             /\ homeToast' = "Error saving search data. Please try again."
             /\ searchBtn' = homeSaveCatch(homeOriginalText)
             /\ homeOriginalText' = NoText
             /\ UNCHANGED lsFlightSearch
    /\ UNCHANGED <<bookingState, lsBookingState, domVars, asyncVars, envVars, homePassengers,
                   localPassengers>>

\* the second timer fires: window.location.href = '/book/' loads the
\* booking page
HomeRedirect ==
    /\ homePc = "redirecting"
    /\ DOMContentLoaded(SetItemOk)
    /\ homePc' = "idle"
    /\ homeFormData' = Null
    /\ homeToast' = "none"
    /\ homePassengers' = DefaultPassengers
    /\ localPassengers' = DefaultPassengers
    /\ searchBtn' = SearchBtnServed
    /\ homeOriginalText' = NoText
    /\ UNCHANGED envVars

\* the older home script: its global passengers, which no statement assigns
\* (its initPassengerSelector declares a passengers of its own)
GlobalPassengers == [adults |-> 1, children |-> 0, infants |-> 0]

\* the older home script, populateList: the values of the list of type, the
\* infants list being rebuilt whenever an adults entry is clicked
ListValues(type, p) ==
    IF type = "adults" THEN 1..9
    ELSE IF type = "children" THEN 0..6
    ELSE 0..p.adults

\* the older home script: click on the entry i of the list of type
ClickListItem(type, i) ==
    /\ i \in ListValues(type, localPassengers)
    /\ localPassengers' = [localPassengers EXCEPT ![type] = i]
    /\ UNCHANGED <<bookingState, storageVars, domVars, asyncVars, envVars,
                   homePc, homeFormData, homeToast, homePassengers, searchBtn,
                   homeOriginalText>>

\* the older home script (initFlightSearchForm with one combined check of
\* the required fields): the message of the first failing check
LegacyHomeFormError(form) ==
    IF Trim(form.from) = <<>> \/ Trim(form.to) = <<>> \/ form.departureDate = ""
    THEN "Please fill in all required fields"
    ELSE IF ToLowerCase(Trim(form.from)) = ToLowerCase(Trim(form.to))
         THEN "Departure and destination cannot be the same"
    ELSE IF form.tripType = "round-trip" /\ form.returnDate = ""
         THEN "Please select return date for round trip"
    ELSE "none"

\* JSON null in a property that holds a date string otherwise (the value of
\* a date input is a date or the empty string)
NullDate == "null"

\* the older home script: the searchData object it stores
LegacyHomeSearchDataOf(form) ==
    [from |-> Trim(form.from),
     to |-> Trim(form.to),
     departureDate |-> form.departureDate,
     returnDate |-> IF form.returnDate = "" THEN NullDate ELSE form.returnDate,
     tripType |-> form.tripType,
     passengers |-> GlobalPassengers]

\* the older home script's submit handler, with form typed in: its showError
\* builds the message element and never attaches it; setItem and the
\* redirect follow at once, and a throwing setItem ends the handler
SubmitLegacyHomeSearch(form) ==
    /\ homePc = "idle"
    /\ IF LegacyHomeFormError(form) = "none" /\ SetItemOk
       THEN /\ lsFlightSearch' = LegacyHomeSearchDataOf(form)
            /\ homePc' = "redirecting"
       ELSE UNCHANGED <<lsFlightSearch, homePc>>
    /\ UNCHANGED <<bookingState, lsBookingState, domVars, asyncVars, envVars,
                   homeFormData, homeToast, homePassengers, localPassengers, searchBtn,
                   homeOriginalText>>

-----------------------------------------------------------------------------
(* Specifications *)

\* the first visit of the booking page, with slotState in 'bookingState'
InitAt(slotState, clocks) ==
    \E full \in BOOLEAN :
        LET l == Loaded(slotState, Absent, ~full)
        IN  /\ storageFull = full
            /\ bookingState = l.bs
            /\ lsBookingState = l.ls
            /\ lsFlightSearch = l.slot
            /\ activeStep = l.active
            /\ progress = l.prog
            /\ listening = l.listening
            /\ passengers = l.passengers
            /\ flights = <<>>
            /\ noFlights = NoFlightsHidden
            /\ shownTotals = InitialTotals
            /\ toast = "none"
            /\ shownReference = ""
            /\ cardForm = NoCard
            /\ pendingSearches = <<>>
            /\ payment = "idle"
            /\ confirmDisabled = FALSE
            /\ confirmLabel = TemplateLabel
            /\ originalText = NoText
            /\ now \in clocks
            /\ homePc = "idle"
            /\ homeFormData = Null
            /\ homeToast = "none"
            /\ homePassengers = DefaultPassengers
            /\ localPassengers = DefaultPassengers
            /\ searchBtn = SearchBtnServed
            /\ homeOriginalText = NoText

\* the first visit of the booking page today
InitWith(slotState) == InitAt(slotState, Clocks)

\* a new user: nothing stored yet
Init == InitWith(Absent)

\* the booking page
WizardNext ==
    \/ PageLoad
    \/ HandleSearch
    \/ SearchReturns
    \/ SelectFlight
    \/ ContinueToPassengers
    \/ ModifySearch
    \/ BackToSearch
    \/ BackToFlights
    \/ ContinueToPayment
    \/ BackToPassenger
    \/ HandlePayment
    \/ PaymentProcessed
    \/ BookingCreated

\* the home page, open in a tab of its own
HomeNext ==
    \/ HomeSubmit
    \/ HomeSave
    \/ HomeRedirect

Next == WizardNext \/ HomeNext

Spec == Init /\ [][Next]_vars

\* what 'bookingState' may hold when it was not written by this page:
\* text that is no JSON, JSON that is no object, and objects with absent,
\* null or unexpected properties
StoredSearch ==
    [from |-> Lagos, to |-> Abuja, departureDate |-> "2026-12-01", returnDate |-> "",
     passengers |-> DefaultPassengers]
StoredPassenger == [name |-> Ada, email |-> GoodEmail, phone |-> Phone, specialRequests |-> <<>>]

\* the data properties of a stored object: none; null where an object is
\* expected; a search and a flight but no passenger; a whole booking
ForeignData ==
    { [searchData |-> Missing, selectedFlight |-> Missing, passengerData |-> Missing,
       paymentData |-> Missing, bookingDetails |-> Missing],
      [searchData |-> Null, selectedFlight |-> Null, passengerData |-> Null,
       paymentData |-> Null, bookingDetails |-> Null],
      [searchData |-> StoredSearch, selectedFlight |-> searchFlightsAPI(StoredSearch)[1],
       passengerData |-> Missing, paymentData |-> Missing, bookingDetails |-> Missing],
      [searchData |-> StoredSearch, selectedFlight |-> searchFlightsAPI(StoredSearch)[1],
       passengerData |-> StoredPassenger, paymentData |-> Missing,
       bookingDetails |-> createBooking("SKB-4F7K2Q")] }

ForeignSteps == {NoStep, 0, 2, 4, 5, 6}

ForeignObjects ==
    { [currentStep |-> n,
       searchData |-> d.searchData,
       selectedFlight |-> d.selectedFlight,
       passengerData |-> d.passengerData,
       paymentData |-> d.paymentData,
       bookingDetails |-> d.bookingDetails] : n \in ForeignSteps, d \in ForeignData }

ForeignSlots ==
    {Absent, Malformed, JsonNull, JsonScalar}
        \cup {[kind |-> "json", value |-> o] : o \in ForeignObjects}

\* the first visit finds anything in 'bookingState'; the booking page alone
InitAnySlot == \E slotState \in ForeignSlots : InitWith(slotState)

SpecAnySlot == InitAnySlot /\ [][WizardNext]_vars

\* what can be typed into a search form: cities with and without blanks
\* around them, in either letter case, or nothing; a date picked or not
LAGOS == <<"L", "A", "G", "O", "S">>
TypedOrigins == {Lagos, <<" ">> \o Lagos, <<>>, <<" ">>}
TypedDestinations == {Abuja, lagos, LAGOS \o <<" ">>, <<>>}
TypedDepartures == {"", "2026-12-24"}
TypedReturns == {"", "2026-12-31"}

\* values of #bookingFrom, #bookingTo, #bookingDeparture, #bookingReturn
TypedSearchForms ==
    [from : TypedOrigins, to : TypedDestinations,
     departureDate : TypedDepartures, returnDate : TypedReturns]

\* values of #fromCity, #toCity, #departureDate, #returnDate and of the
\* active .trip-option
TypedHomeForms ==
    [from : TypedOrigins, to : TypedDestinations,
     departureDate : TypedDepartures, returnDate : TypedReturns,
     tripType : {"one-way", "round-trip"}]

\* submit of #bookingSearchForm with anything typed in
TypedHandleSearch == \E form \in TypedSearchForms : SubmitSearch(form)

\* submit of #flightSearchForm with anything typed in
TypedHomeSubmit == \E form \in TypedHomeForms : SubmitHomeSearch(form)

\* submit of #flightSearchForm on the home page served with the older script
LegacyHomeSubmit == \E form \in TypedHomeForms : SubmitLegacyHomeSearch(form)

\* the search forms of both pages
SearchNext ==
    \/ TypedHomeSubmit
    \/ HomeSave
    \/ HomeRedirect
    \/ LegacyHomeSubmit
    \/ TypedHandleSearch
    \/ SearchReturns
    \/ BackToSearch

SpecSearch == Init /\ [][SearchNext]_vars

\* the home page alone, served with either script, up to the booking page
\* it redirects to
HomeSearchNext ==
    \/ TypedHomeSubmit
    \/ HomeSave
    \/ HomeRedirect
    \/ LegacyHomeSubmit

SpecHome == Init /\ [][HomeSearchNext]_vars

\* what can be typed into the passenger form
TypedNames == {Ada, <<" ">> \o Ada \o <<" ">>, <<>>, <<" ">>}
TypedEmails ==
    { GoodEmail,
      <<" ">> \o GoodEmail,
      <<"a", "@", "b", ".", "c", ".", "d">>,
      BadEmail,
      <<"a", ".", "b", "@", "c">>,
      <<"a", "@", "@", "b", ".", "c">>,
      <<"a", "@", "b", "@", "c", ".", "d">>,
      <<"a", " ", "b", "@", "c", ".", "d">>,
      <<"a", "@", "b", ".", "c", " ", "d">>,
      <<"@", "b", ".", "c">>,
      <<"a", "@", "b", ".">>,
      <<"a", "@", ".", "c">>,
      <<"a", "b", ".", "c">>,
      <<>> }
TypedPhones == {Phone, <<>>, <<" ">>}

\* values of #passengerName, #passengerEmail, #passengerPhone, #specialRequests
TypedPassengerForms ==
    [name : TypedNames, email : TypedEmails, phone : TypedPhones, specialRequests : {<<>>}]

\* click on #continueToPayment with anything typed in
TypedContinueToPayment == \E form \in TypedPassengerForms : ClickContinueToPayment(form)

\* the wizard up to the passenger form
PassengerNext ==
    \/ HandleSearch
    \/ SearchReturns
    \/ SelectFlight
    \/ ContinueToPassengers
    \/ TypedContinueToPayment
    \/ BackToPassenger

SpecPassenger == Init /\ [][PassengerNext]_vars

\* what the card inputs can hold when the click handler reads them: the
\* input listeners reformat what is typed; a value set by a script or filled
\* in without an input event is read as it is
Card13 == <<"4", "1", "1", "1", "1", "1", "1", "1", "1", "1", "1", "1", "1">>
Card12 == SubSeq(Card13, 1, 12)
Card19 == Card13 \o <<"1", "1", "1", "1", "1", "1">>
Card20 == Card19 \o <<"1">>
HyphenCard == <<"4", "1", "1", "1", "-", "1", "1", "1", "1", "-",
                "1", "1", "1", "1", "-", "1", "1", "1", "1">>
TypedCardNames == {Ada, <<" ">>}
TypedCardNumbers == {GoodCard, Card13, Card19, Card12, Card20, ShortCard, HyphenCard, <<>>}
TypedExpiries ==
    { GoodExpiry,
      <<"1", "1", "/", "2", "6">>,
      <<"1", "0", "/", "2", "6">>,
      <<"1", "2", "/", "2", "5">>,
      <<"1", "3", "/", "3", "0">>,
      <<"1", "/", "3", "0">>,
      <<>> }
TypedCVVs == {GoodCVV, GoodCVV \o <<"6">>, <<"9", "8">>, GoodCVV \o <<"6", "5">>, <<>>}

\* values of #cardName, #cardNumber, #cardExpiry, #cardCVV
TypedCardForms ==
    [cardName : TypedCardNames, cardNumber : TypedCardNumbers,
     cardExpiry : TypedExpiries, cardCVV : TypedCVVs]

\* click on #confirmBookingBtn with anything in the card inputs
TypedHandlePayment == \E form \in TypedCardForms : ClickConfirmBooking(form)

\* the wizard forward to the confirm click
PaymentNext ==
    \/ HandleSearch
    \/ SearchReturns
    \/ SelectFlight
    \/ ContinueToPassengers
    \/ ContinueToPayment
    \/ TypedHandlePayment

SpecPayment == Init /\ [][PaymentNext]_vars

\* the wizard from the search to the end of the confirm attempt, with the back
\* button of Payment and a reload of the page
FairNext ==
    \/ PageLoad
    \/ HandleSearch
    \/ SearchReturns
    \/ SelectFlight
    \/ ContinueToPassengers
    \/ ContinueToPayment
    \/ BackToPassenger
    \/ HandlePayment
    \/ PaymentProcessed
    \/ BookingCreated

\* the timers of processPayment (2 s) and createBooking (1 s) fire: each of
\* the two awaits of handlePayment ends
SpecFair ==
    Init /\ [][FairNext]_vars /\ WF_vars(PaymentProcessed) /\ WF_vars(BookingCreated)

\* click on a .passenger-btn of the home page, up to MaxCount of each type
ClickHomePassengerBtnUpTo ==
    \E type \in PassengerTypes, action \in BtnActions :
        HomePassengerBtn(type, action) /\ homePassengers'[type] <= MaxCount

\* the older home script: click on an entry of a passenger list, up to MaxCount
ClickLegacyListItem ==
    \E type \in PassengerTypes, i \in 0..MaxCount : ClickListItem(type, i)

\* the older home script: submit of #flightSearchForm
LegacySubmit == \E form \in HomeFormInputs : SubmitLegacyHomeSearch(form)

\* the home page, served with either script, up to the write of the slot:
\* the passenger selector and the search form
HomeCountsNext ==
    \/ ClickHomePassengerBtnUpTo
    \/ HomeSubmit
    \/ HomeSave
    \/ ClickLegacyListItem
    \/ LegacySubmit

SpecHomeCounts == Init /\ [][HomeCountsNext]_vars

\* the days the booking page may be opened on: today, and the turns of a
\* year, of a decade and of the century
ExpiryClocks ==
    { [year |-> 2026, month |-> 11],
      [year |-> 2029, month |-> 12],
      [year |-> 2030, month |-> 1],
      [year |-> 2099, month |-> 12],
      [year |-> 2100, month |-> 1] }

\* the longest value of #cardExpiry typed in
MaxExpiryLen == 5

\* what can be typed into #cardExpiry: every string of these characters
ExpiryKeys == {"0", "1", "2", "3", "9", "/"}
ExpiryStrings == UNION {[1..n -> ExpiryKeys] : n \in 0..MaxExpiryLen}

\* the first click on #confirmBookingBtn after the payment form was served,
\* with a good name, number and CVV and anything in #cardExpiry
ExpiryHandlePayment ==
    /\ cardForm = NoCard
    /\ \E expiry \in ExpiryStrings :
        ClickConfirmBooking([cardName |-> Ada, cardNumber |-> GoodCard,
                             cardExpiry |-> expiry, cardCVV |-> GoodCVV])

\* the wizard forward to the confirm click, on any of the days
ExpiryNext ==
    \/ HandleSearch
    \/ SearchReturns
    \/ SelectFlight
    \/ ContinueToPassengers
    \/ ContinueToPayment
    \/ ExpiryHandlePayment

SpecExpiry == InitAt(Absent, ExpiryClocks) /\ [][ExpiryNext]_vars

\* the keys pressed in #cardNumber and the texts pasted into it
CardKeys == {"4", " ", "-", "a"}
PastedCards ==
    { GoodCard, Card12, Card13, Card19, Card20, HyphenCard,
      <<" ", "5", "5", " ", " ", "5", "a", "5", "5", "-", "5", " ">> }

\* a key pressed at the end of #cardNumber, or a text pasted over its value
TypeCardNumber ==
    \/ \E key \in CardKeys : InputCardNumber(Append(cardForm.cardNumber, key))
    \/ \E text \in PastedCards : InputCardNumber(text)

\* click on #confirmBookingBtn with the number the field holds and a good
\* name, expiry date and CVV
ConfirmTypedCard ==
    ClickConfirmBooking([cardName |-> Ada, cardNumber |-> cardForm.cardNumber,
                         cardExpiry |-> GoodExpiry, cardCVV |-> GoodCVV])

\* the wizard forward to Payment, the card number field and the confirm click
CardNext ==
    \/ HandleSearch
    \/ SearchReturns
    \/ SelectFlight
    \/ ContinueToPassengers
    \/ ContinueToPayment
    \/ TypeCardNumber
    \/ ConfirmTypedCard

SpecCard == Init /\ [][CardNext]_vars

\* the passenger selectors of both pages
SelectorNext ==
    \/ ClickPassengerBtn
    \/ ClickHomePassengerBtn

SpecSelector == Init /\ [][SelectorNext]_vars

\* the wizard forward to the payment summary, with any selection of passengers
PriceNext ==
    \/ ClickPassengerBtn
    \/ ApplyPassengerChanges
    \/ HandleSearch
    \/ SearchReturns
    \/ SelectFlight
    \/ ContinueToPassengers
    \/ ContinueToPayment

SpecPrice == Init /\ [][PriceNext]_vars

\* submit of #bookingSearchForm while earlier submissions are awaiting
RacingHandleSearch == \E form \in SearchFormInputs : SubmitSearchAmong(form, MaxRacing)

\* the search form submitted again and again, and the views behind it
RaceNext ==
    \/ RacingHandleSearch
    \/ SearchReturns
    \/ SelectFlight
    \/ ContinueToPassengers
    \/ BackToSearch

SpecRace == Init /\ [][RaceNext]_vars

\* the flight search of the server, which the mock stands for: it finds the
\* offers, finds none, or the request fails
ApiAnswers(searchData) ==
    {Resolved(searchFlightsAPI(searchData)), Resolved(<<>>), Rejected}

\* the awaited call i ends as the server makes it end
SearchAnswers ==
    \E i \in DOMAIN pendingSearches :
        \E answer \in ApiAnswers(pendingSearches[i]) : handleSearchResumes(i, answer)

\* the search form and the views behind it, searching on the server
SearchApiNext ==
    \/ RacingHandleSearch
    \/ SearchAnswers
    \/ SelectFlight
    \/ ContinueToPassengers
    \/ BackToSearch

SpecSearchApi == Init /\ [][SearchApiNext]_vars

-----------------------------------------------------------------------------
(* Properties *)

\* the record holds a non-empty name, email and phone
HasPassenger(passengerData) ==
    /\ Truthy(passengerData)
    /\ {"name", "email", "phone"} \subseteq DOMAIN passengerData
    /\ passengerData.name # <<>>
    /\ passengerData.email # <<>>
    /\ passengerData.phone # <<>>

\* the record holds a booking result
HasBooking(bookingDetails) ==
    Truthy(bookingDetails) /\ "bookingReference" \in DOMAIN bookingDetails

\* no handler is suspended at an await
NoHandlerRunning == pendingSearches = <<>> /\ payment = "idle"

\* this step is a load of the booking page
LoadStep == PageLoad \/ HomeRedirect

\* this step is the end of a handlePayment call that showed the confirmation
BookingSucceeded == BookingCreated /\ toast' = "none"

\* C1: at Payment (4) and Confirmation (5) passengerData holds a non-empty
\* name, email and phone, whatever searches, selections, continues, backs,
\* confirms and page loads came before
C1_PassengerBeforePayment ==
    bookingState.currentStep \in {4, 5} => HasPassenger(bookingState.passengerData)

\* C1 witness: the Confirmation step restored by a page load (the reference
\* is not rendered again), with the passenger record restored from storage
C1_Witness ==
    /\ bookingState.currentStep = 5
    /\ activeStep = 5
    /\ shownReference = ""
    /\ flights = <<>>
    /\ HasPassenger(bookingState.passengerData)

\* C2: from PassengerDetails (3) on a flight is selected, whatever searches,
\* selections, continues, backs, confirms and page loads came before
C2_FlightBeforePassengers ==
    bookingState.currentStep >= 3 => Truthy(bookingState.selectedFlight)

\* C2 witness: back from Payment to PassengerDetails with the flight kept
C2_Witness ==
    /\ bookingState.currentStep = 3
    /\ HasPassenger(bookingState.passengerData)
    /\ Truthy(bookingState.selectedFlight)
    /\ flights # <<>>

\* C3: currentStep is one of the five steps, also after a page load that
\* found anything at all in the 'bookingState' slot
C3_StepInRange == bookingState.currentStep \in 1..5

\* C4: when a handler that changed the session record has finished, the
\* 'bookingState' slot holds the serialisation of the record (a page load
\* counts when it consumed a pending search; storage accepts writes)
C4_PersistedAfterMutation ==
    [][ ( /\ ~storageFull
          /\ bookingState' # bookingState
          /\ LoadStep => lsFlightSearch # Absent
          /\ NoHandlerRunning' )
        => lsBookingState' = JSONStringify(bookingState') ]_vars

\* C5: a page load that finds a record written by saveBookingState and no
\* pending search leaves the session equal to that record: it serialises
\* to the very text found
C5_RestoreIsIdentity ==
    [][ (LoadStep /\ lsBookingState # Absent /\ lsFlightSearch = Absent)
        => JSONStringify(bookingState') = lsBookingState ]_vars

\* C5 witness: a session with flight and passenger restored at Payment
\* from the slot by a page load
C5_Witness ==
    /\ lsBookingState = JSONStringify(bookingState)
    /\ bookingState.currentStep = 4
    /\ Truthy(bookingState.selectedFlight)
    /\ HasPassenger(bookingState.passengerData)
    /\ flights = <<>>
    /\ cardForm = NoCard
    /\ toast = "none"

\* every card number (as typed and with the whitespace removed) and CVV
\* the user can enter
CardSecrets ==
    UNION { {form.cardNumber, RemoveWhitespace(form.cardNumber), form.cardCVV} :
            form \in PaymentFormInputs }

\* a stored paymentData is empty or holds the cardholder name, at most four
\* characters of the number and the expiry, none of them a card secret
NoCardSecret(paymentData) ==
    \/ ~Truthy(paymentData)
    \/ paymentData \in {EmptyObject, Missing}
    \/ /\ DOMAIN paymentData = {"cardName", "cardLastFour", "expiryDate"}
       /\ Len(paymentData.cardLastFour) <= 4
       /\ \A f \in DOMAIN paymentData : paymentData[f] \notin CardSecrets

\* C6: neither bookingState nor the 'bookingState' slot holds the full card
\* number or the CVV; of the number the last four digits are kept
C6_NoCardSecretsKept ==
    /\ NoCardSecret(bookingState.paymentData)
    /\ lsBookingState.kind = "json" => NoCardSecret(lsBookingState.value.paymentData)
    /\ \A form \in PaymentFormInputs :
          (cardForm = form /\ bookingState.paymentData = PaymentDataOf(form)) =>
             bookingState.paymentData.cardLastFour
                = SliceLast(RemoveWhitespace(form.cardNumber), 4)

\* C6 witness: a full card number was typed and accepted, and the session
\* was written to storage afterwards
C6_Witness ==
    /\ cardForm.cardNumber = GoodCard
    /\ bookingState.paymentData # EmptyObject
    /\ lsBookingState.kind = "json"
    /\ lsBookingState.value.paymentData = bookingState.paymentData

\* slot contents from which no session record can be read
Undeserialisable == {Malformed, JsonNull, JsonScalar}

\* a fresh session
FreshSession(bs) ==
    /\ bs.currentStep = 1
    /\ ~Truthy(bs.searchData)
    /\ ~Truthy(bs.selectedFlight)
    /\ bs.passengerData = EmptyObject
    /\ bs.paymentData = EmptyObject
    /\ bs.bookingDetails = EmptyObject

\* C7: a page load that finds undeserialisable data in 'bookingState' does
\* not throw - the handlers are attached whenever such data is in the slot -
\* and, with no pending search to consume, it leaves a fresh session at
\* step 1
C7_CorruptSlotRecovered ==
    /\ [](lsBookingState \in Undeserialisable => listening)
    /\ [][ (LoadStep /\ lsBookingState \in Undeserialisable /\ lsFlightSearch = Absent)
           => (listening' /\ FreshSession(bookingState') /\ activeStep' = 1) ]_vars

\* C7 witness: the page has loaded over text that is no JSON
C7_Witness ==
    /\ lsBookingState = Malformed
    /\ listening
    /\ activeStep = 1
    /\ FreshSession(bookingState)

\* C8: a successful booking leaves the 'bookingState' slot cleared
C8_SessionSlotCleared ==
    [][ BookingSucceeded => lsBookingState' = Absent ]_vars

\* C9: a successful booking leaves the 'flightSearch' slot empty, the wizard
\* at step 5 and the returned reference in bookingDetails and on the
\* confirmation view
C9_BookingClearsPendingSearch ==
    [][ BookingSucceeded =>
          /\ lsFlightSearch' = Absent
          /\ bookingState'.currentStep = 5
          /\ HasBooking(bookingState'.bookingDetails)
          /\ shownReference' = bookingState'.bookingDetails.bookingReference ]_vars

\* C10: a booking result in bookingDetails implies currentStep = 5
C10_BookingImpliesConfirmation ==
    HasBooking(bookingState.bookingDetails) => bookingState.currentStep = 5

\* a step of a confirm attempt (a page load ends every attempt)
AttemptStep == ~LoadStep

\* the message of handlePayment's catch block
PaymentFailed == "Payment failed. Please try again."

\* C11: within one confirm attempt createBooking is started only when
\* the awaited processPayment of that attempt has resolved, processPayment is
\* started only by a confirm click with nothing pending, and bookingDetails
\* is written only by the step in which createBooking has resolved
C11_PaymentBeforeBooking ==
    [][AttemptStep =>
        /\ (payment' = "createBooking" /\ payment # "createBooking")
                => (payment = "processPayment" /\ PaymentProcessed)
        /\ (payment' = "processPayment" /\ payment # "processPayment")
                => (payment = "idle" /\ HandlePayment)
        /\ (bookingState'.bookingDetails # bookingState.bookingDetails)
                => (payment = "createBooking" /\ BookingCreated)]_vars

\* a confirm attempt has run to its end: paid, booked, the reference shown
C11_Witness ==
    /\ payment = "idle"
    /\ HasBooking(bookingState.bookingDetails)
    /\ shownReference = bookingState.bookingDetails.bookingReference
    /\ bookingState.paymentData = PaymentDataOf(cardForm)
    /\ toast = "none"

\* C12: a confirm attempt that ends with the failure message leaves
\* the session at step 4, without a booking result, and with the payment
\* fields derived from the card form of that attempt
C12_FailedAttemptStaysInPayment ==
    [][(BookingCreated /\ toast' = PaymentFailed) =>
        /\ bookingState'.currentStep = 4
        /\ ~HasBooking(bookingState'.bookingDetails)
        /\ bookingState'.paymentData = PaymentDataOf(cardForm)]_vars


\* the guard of the Search step: both cities given and different without
\* regard to letter case, a departure date, and a return date for a round trip
SearchFormValid(form, roundTrip) ==
    /\ Trim(form.from) # <<>>
    /\ Trim(form.to) # <<>>
    /\ ToLowerCase(Trim(form.from)) # ToLowerCase(Trim(form.to))
    /\ form.departureDate # ""
    /\ roundTrip => form.returnDate # ""

\* the session's search is a round trip (taken over from the home page)
RoundTrip(bs) ==
    /\ Truthy(bs.searchData)
    /\ "tripType" \in DOMAIN bs.searchData
    /\ bs.searchData.tripType = "round-trip"

\* the typed forms that satisfy the guard
ValidSearchForms(roundTrip) ==
    UNION {IF SearchFormValid(form, roundTrip) THEN {form} ELSE {} : form \in TypedSearchForms}
ValidOneWaySearchForms == ValidSearchForms(FALSE)
ValidRoundTripSearchForms == ValidSearchForms(TRUE)
ValidHomeForms ==
    UNION {IF SearchFormValid(form, form.tripType = "round-trip") THEN {form} ELSE {} :
            form \in TypedHomeForms}

\* the messages of handleSearch's checks
SearchMessages == {SearchError(SearchDataOf(form, InitialBookingState)) : form \in TypedSearchForms} \ {"none"}

\* C13: a submission of the wizard's search form starts the search,
\* which then shows FlightResults, exactly if the guard of the Search step
\* holds; otherwise an error is shown and currentStep is unchanged
C13_WizardSearchGuard ==
    [][LET valid == IF RoundTrip(bookingState)
                    THEN ValidRoundTripSearchForms
                    ELSE ValidOneWaySearchForms
       IN  /\ Len(pendingSearches') > Len(pendingSearches) =>
                \E form \in valid :
                    bookingState'.searchData = SearchDataOf(form, bookingState)
           /\ \A form \in valid :
                SubmitSearch(form) =>
                    pendingSearches' = Append(pendingSearches, SearchDataOf(form, bookingState))
           /\ (Shown(1) /\ toast' \in SearchMessages) => UNCHANGED <<bookingState, pendingSearches>>
           /\ (SearchReturns /\ ~storageFull) =>
                (bookingState'.currentStep = 2 /\ activeStep' = 2 /\ toast' = "none")]_vars

\* C14: with storage accepting the write, the home page's search form
\* (either script) writes 'flightSearch' and goes on to the redirect exactly
\* if the guard holds; a rejected submission, such as Lagos to lagos, writes
\* nothing; and nothing else on the home page writes the slot
C14_HomeSearchGuard ==
    [][/\ (homePc = "idle" /\ homePc' = "saving") =>
            \E form \in ValidHomeForms : homeFormData' = HomeFormDataOf(form)
       /\ \A form \in ValidHomeForms :
            SubmitHomeSearch(form) =>
                (homePc' = "saving" /\ homeFormData' = HomeFormDataOf(form))
       /\ (HomeSave /\ ~storageFull) =>
            (lsFlightSearch' = homeFormData /\ homePc' = "redirecting")
       /\ (homePc = "idle" /\ homePc' = "redirecting") =>
            \E form \in ValidHomeForms : lsFlightSearch' = LegacyHomeSearchDataOf(form)
       /\ \A form \in ValidHomeForms :
            (SubmitLegacyHomeSearch(form) /\ ~storageFull) =>
                (lsFlightSearch' = LegacyHomeSearchDataOf(form) /\ homePc' = "redirecting")
       /\ (lsFlightSearch' # lsFlightSearch /\ lsFlightSearch' # Absent) =>
            (homePc # "redirecting" /\ homePc' = "redirecting")
       /\ (homePc = "idle" /\ homePc' = "idle") => UNCHANGED lsFlightSearch]_vars

\* a round trip accepted by the home page is in the slot, the redirect pending
C14_Witness ==
    /\ homePc = "redirecting"
    /\ lsFlightSearch # Absent
    /\ lsFlightSearch.tripType = "round-trip"
    /\ lsFlightSearch.returnDate = "2026-12-31"
    /\ lsFlightSearch.from = Lagos

\* the typed forms without a return date that are valid otherwise
HomeFormsWithoutReturn ==
    UNION {IF form.tripType = "round-trip" /\ form.returnDate = "" /\ SearchFormValid(form, FALSE)
           THEN {form} ELSE {} : form \in TypedHomeForms}
SearchFormsWithoutReturn ==
    UNION {IF form.returnDate = "" /\ SearchFormValid(form, FALSE)
           THEN {form} ELSE {} : form \in TypedSearchForms}

\* C15: a round-trip submission without a return date, valid
\* otherwise, is rejected with the return-date message by the home page's
\* form and by the wizard's form, and changes neither the pending-search slot
\* nor the session
C15_ReturnDateRequired ==
    [][/\ \A form \in HomeFormsWithoutReturn :
            SubmitHomeSearch(form) =>
                /\ homeToast' = "Please select a return date for round trip"
                /\ homePc' = "idle"
                /\ UNCHANGED <<lsFlightSearch, bookingState>>
       /\ \A form \in HomeFormsWithoutReturn :
            SubmitLegacyHomeSearch(form) =>
                /\ homePc' = "idle"
                /\ UNCHANGED <<lsFlightSearch, bookingState>>
       /\ \A form \in SearchFormsWithoutReturn :
            (SubmitSearch(form) /\ RoundTrip(bookingState)) =>
                /\ toast' # "none"
                /\ UNCHANGED <<lsFlightSearch, bookingState, pendingSearches>>]_vars

\* C16: a click on continue in FlightResults shows PassengerDetails
\* exactly if a flight is selected; without one the message is shown and the
\* wizard stays at step 2
C16_ContinueNeedsFlight ==
    [][ContinueToPassengers =>
        IF Truthy(bookingState.selectedFlight)
        THEN /\ bookingState'.currentStep = 3
             /\ activeStep' = 3
             /\ toast' = "none"
        ELSE /\ toast' = "Please select a flight to continue"
             /\ bookingState' = bookingState
             /\ bookingState.currentStep = 2
             /\ activeStep' = 2]_vars

\* continue was clicked with the offers shown and none selected
C16_Witness ==
    /\ toast = "Please select a flight to continue"
    /\ activeStep = 2
    /\ bookingState.currentStep = 2
    /\ flights # <<>>
    /\ ~Truthy(bookingState.selectedFlight)

\* the offers shown by displayFlights for the last search that returned
ShownOffers == {flights[i] : i \in DOMAIN flights}

\* C17: when continue moves the wizard from FlightResults to
\* PassengerDetails with the offers of a search shown, selectedFlight is one
\* of these offers, which are those of the search for the current searchData
C17_FlightFromLastSearch ==
    [][(ContinueToPassengers /\ bookingState'.currentStep = 3 /\ flights # <<>>) =>
        /\ bookingState'.selectedFlight \in ShownOffers
        /\ flights = searchFlightsAPI(bookingState.searchData)]_vars


\* local@domain.tld: one "@", no whitespace, something before the "@", and
\* after it a "." with something on both sides
EmailPattern(email) ==
    /\ Cardinality({i \in DOMAIN email : email[i] = "@"}) = 1
    /\ \A i \in DOMAIN email : email[i] \notin Whitespace
    /\ LET at == CHOOSE i \in DOMAIN email : email[i] = "@"
       IN  /\ at > 1
           /\ \E dot \in (at + 2)..(Len(email) - 1) : email[dot] = "."

\* the guard of the PassengerDetails step
PassengerFormValid(form) ==
    /\ Trim(form.name) # <<>>
    /\ Trim(form.email) # <<>>
    /\ Trim(form.phone) # <<>>
    /\ EmailPattern(Trim(form.email))

ValidPassengerForms ==
    UNION {IF PassengerFormValid(form) THEN {form} ELSE {} : form \in TypedPassengerForms}

\* the messages of validatePassengerDetails
PassengerMessages == {PassengerError(form) : form \in TypedPassengerForms} \ {"none"}

\* C18: a click on continue in PassengerDetails stores the trimmed
\* passenger data and shows Payment exactly if name, email and phone are
\* given and the email has the shape local@domain.tld; a refused click
\* leaves passengerData and currentStep as they were
C18_PassengerGuard ==
    [][/\ (Shown(3) /\ activeStep' = 4) =>
            \E form \in ValidPassengerForms :
                bookingState'.passengerData = PassengerDataOf(form)
       /\ \A form \in ValidPassengerForms :
            ClickContinueToPayment(form) =>
                /\ bookingState'.passengerData = PassengerDataOf(form)
                /\ bookingState'.currentStep = 4
                /\ activeStep' = 4
       /\ (Shown(3) /\ toast' \in PassengerMessages) =>
            /\ bookingState'.passengerData = bookingState.passengerData
            /\ bookingState'.currentStep = bookingState.currentStep
            /\ activeStep' = 3]_vars

\* an address with two dots after the "@" was accepted
C18_Witness ==
    /\ activeStep = 4
    /\ bookingState.currentStep = 4
    /\ bookingState.passengerData = [name |-> Ada,
                                     email |-> <<"a", "@", "b", ".", "c", ".", "d">>,
                                     phone |-> Phone,
                                     specialRequests |-> <<>>]


\* the two digits at positions i and i + 1 of s, as a number
TwoDigits(s, i) == DigitValue(s[i]) * 10 + DigitValue(s[i + 1])

\* the conditions of the Payment step's guard, on the values of the inputs
CardNameGiven(form) == Trim(form.cardName) # <<>>
CardNumberGood(form) ==
    LET digits == RemoveWhitespace(form.cardNumber)
    IN  /\ Len(digits) \in 13..19
        /\ \A i \in DOMAIN digits : digits[i] \in Digits
ExpiryGood(form, today) ==
    LET e == Trim(form.cardExpiry)
    IN  /\ Len(e) = 5
        /\ e[3] = "/"
        /\ \A i \in {1, 2, 4, 5} : e[i] \in Digits
        /\ TwoDigits(e, 1) \in 1..12
        /\ \/ TwoDigits(e, 4) > today.year % 100
           \/ TwoDigits(e, 4) = today.year % 100 /\ TwoDigits(e, 1) >= today.month
CVVGood(form) ==
    LET c == Trim(form.cardCVV)
    IN  Len(c) \in 3..4 /\ \A i \in DOMAIN c : c[i] \in Digits

\* the messages of the first failing condition, in the order name, card
\* number, expiry, CVV
ExpectedPaymentMessages(form, today) ==
    IF ~CardNameGiven(form) THEN {"Please enter cardholder name"}
    ELSE IF ~CardNumberGood(form)
         THEN {"Please enter card number", "Please enter a valid card number"}
    ELSE IF ~ExpiryGood(form, today)
         THEN {"Please enter expiry date", "Please enter a valid expiry date (MM/YY)"}
    ELSE IF ~CVVGood(form)
         THEN {"Please enter CVV", "Please enter a valid CVV"}
    ELSE {"none"}

\* C19: a confirm click starts the payment exactly if the name is
\* given, the card number is 13 to 19 digits once whitespace is removed, the
\* expiry is MM/YY and not in the past, and the CVV is 3 or 4 digits;
\* otherwise the message of the first failing condition is shown and no
\* payment is started
C19_PaymentGuard ==
    [][ClickConfirmBooking(cardForm') =>
        IF "none" \in ExpectedPaymentMessages(cardForm', now)
        THEN /\ payment' = "processPayment"
             /\ confirmDisabled'
             /\ toast' = "none"
        ELSE /\ toast' \in ExpectedPaymentMessages(cardForm', now)
             /\ payment' = "idle"
             /\ ~confirmDisabled']_vars

\* a payment was started for 19 digits, this month's expiry and a CVV of four
C19_Witness ==
    /\ payment = "processPayment"
    /\ cardForm.cardNumber = Card19
    /\ cardForm.cardExpiry = <<"1", "1", "/", "2", "6">>
    /\ cardForm.cardCVV = GoodCVV \o <<"6">>

\* the other card inputs hold values that pass
OtherCardFieldsGood(form, today) ==
    CardNameGiven(form) /\ ExpiryGood(form, today) /\ CVVGood(form)

-----------------------------------------------------------------------------
(* Backward navigation and rejected attempts *)

\* a click on one of the four back controls
BackNavigation == ModifySearch \/ BackToSearch \/ BackToFlights \/ BackToPassenger

\* C21: every backward navigation ('modify search', 'back to search', 'back
\* to flights', 'back to passenger') can be clicked whenever its view is
\* shown, and it moves to the step before and changes only currentStep:
\* searchData, selectedFlight, passengerData, paymentData and bookingDetails
\* are the same before and after
C21_BackKeepsData ==
    /\ [](Shown(2) => ENABLED ModifySearch /\ ENABLED BackToSearch)
    /\ [](Shown(3) => ENABLED BackToFlights)
    /\ [](Shown(4) => ENABLED BackToPassenger)
    /\ [][BackNavigation =>
            /\ activeStep' = activeStep - 1
            /\ bookingState' = [bookingState EXCEPT !.currentStep = activeStep - 1]]_vars

\* C21 witness: back at Search from Payment, with the flight, the passenger
\* and the card data of the way forward still held
C21_Witness ==
    /\ Shown(1)
    /\ bookingState.currentStep = 1
    /\ Truthy(bookingState.selectedFlight)
    /\ HasPassenger(bookingState.passengerData)
    /\ bookingState.paymentData # EmptyObject

\* a click on a forward control that ends in showError
RejectedAttempt ==
    /\ HandleSearch \/ ContinueToPassengers \/ ContinueToPayment \/ HandlePayment
    /\ toast' # "none"
    /\ activeStep' = activeStep

\* C22: a forward attempt rejected by validation (search submit, continue
\* on FlightResults, continue on PassengerDetails, confirm on Payment)
\* leaves the session record and the 'bookingState' slot as they were
C22_RejectedAttemptChangesNothing ==
    [][RejectedAttempt => UNCHANGED <<bookingState, lsBookingState>>]_vars

\* C22 witness: a card number was refused on Payment after a passenger form
\* had been refused and then accepted
C22_Witness ==
    /\ Shown(4)
    /\ toast = "Please enter a valid card number"
    /\ bookingState.paymentData = EmptyObject
    /\ HasPassenger(bookingState.passengerData)

-----------------------------------------------------------------------------
(* The search request *)

SearchFailedMessage == "Failed to search flights. Please try again."

\* the awaited search request of some handleSearch call fails
SearchRejected == \E i \in DOMAIN pendingSearches : handleSearchResumes(i, Rejected)

\* the awaited search request of some handleSearch call finds no offer, and
\* the storage takes the save that follows
SearchFoundNothing ==
    /\ SetItemOk
    /\ \E i \in DOMAIN pendingSearches : handleSearchResumes(i, Resolved(<<>>))

\* a search is submitted from Search, where currentStep is 1
SubmittedAtSearch ==
    [][Len(pendingSearches') > Len(pendingSearches) =>
            RacingHandleSearch /\ bookingState.currentStep = 1]_vars

-----------------------------------------------------------------------------
(* The passenger selectors *)

CountsInRange(p) ==
    /\ p.adults >= 1
    /\ p.children >= 0
    /\ 0 <= p.infants
    /\ p.infants <= p.adults

\* C25: whatever increase and decrease buttons are clicked on the passenger
\* selectors of the home page and of the wizard, the counts satisfy
\* adults >= 1, children >= 0 and 0 <= infants <= adults
C25_CountsStayInRange == CountsInRange(passengers) /\ CountsInRange(homePassengers)

AtMinimum(p) == p.adults = 1 /\ p.children = 0 /\ p.infants = 0

\* C26: an increase click on infants when infants equals adults changes
\* none of the counts and shows no error, and so does any decrease click at
\* the minimum (adults = 1, children = 0, infants = 0), on either page
C26_ClicksAtTheLimits ==
    [][ /\ (passengers.infants = passengers.adults /\ PassengerBtn("infants", "increase"))
            => (passengers' = passengers /\ toast' = "none")
        /\ (homePassengers.infants = homePassengers.adults
                /\ HomePassengerBtn("infants", "increase"))
            => (homePassengers' = homePassengers /\ homeToast' = homeToast)
        /\ \A type \in PassengerTypes :
            /\ (AtMinimum(passengers) /\ PassengerBtn(type, "decrease"))
                => (passengers' = passengers /\ toast' = "none")
            /\ (AtMinimum(homePassengers) /\ HomePassengerBtn(type, "decrease"))
                => (homePassengers' = homePassengers /\ homeToast' = homeToast) ]_vars

\* C26 witness: on both pages the infants have been increased up to the
\* adults, two of each, where the next increase click on infants finds
\* infants equal to adults
C26_Witness ==
    /\ passengers.adults = 2
    /\ passengers.infants = 2
    /\ homePassengers.adults = 2
    /\ homePassengers.infants = 2

-----------------------------------------------------------------------------
(* Prices *)

\* the seats paid for: adults and children
Seats(bs) == PassengersOf(bs.searchData).adults + PassengersOf(bs.searchData).children

\* C27: the total price written on the results list, on the summary of
\* PassengerDetails and on the summary of Payment is unitPrice x (adults +
\* children) of the passengers held in searchData, infants not counted;
\* each offer rendered gets its total, and each of the two summaries is
\* written when its view is entered and the session could be saved
C27_TotalPrice ==
    [][ /\ Len(pendingSearches') < Len(pendingSearches)
            => /\ DOMAIN shownTotals'.flightsResults = DOMAIN flights'
               /\ \A i \in DOMAIN flights' :
                    shownTotals'.flightsResults[i] = flights'[i].price * Seats(bookingState')
        /\ shownTotals'.flightSummary # NoTotal
            => shownTotals'.flightSummary
                    = bookingState'.selectedFlight.price * Seats(bookingState')
        /\ shownTotals'.totalPrice # NoTotal
            => shownTotals'.totalPrice
                    = bookingState'.selectedFlight.price * Seats(bookingState')
        /\ (SetItemOk /\ activeStep = 2 /\ activeStep' = 3)
            => shownTotals'.flightSummary # NoTotal
        /\ (SetItemOk /\ activeStep = 3 /\ activeStep' = 4)
            => shownTotals'.totalPrice # NoTotal ]_vars

\* C27 witness: the payment summary shows 599.97 for the offer at 199.99
\* with two adults, one child and one infant
C27_Witness ==
    /\ Shown(4)
    /\ bookingState.selectedFlight.price = 19999
    /\ PassengersOf(bookingState.searchData) = [adults |-> 2, children |-> 1, infants |-> 1]
    /\ shownTotals.totalPrice = 59997

-----------------------------------------------------------------------------
(* One operation in flight *)

\* C28: while handlePayment is awaiting processPayment or createBooking the
\* confirm control is disabled, and a confirm click starts processPayment
\* only when no such operation is under way: at most one is in flight
C28_OnePaymentInFlight ==
    /\ [](payment # "idle" => confirmDisabled)
    /\ [][(HandlePayment /\ toast' = "none") => (payment = "idle" /\ payment' = FirstAwait)]_vars

\* C28 witness: the user has gone back to PassengerDetails and forward again
\* while createBooking is awaited, and finds the confirm control disabled
C28_Witness ==
    /\ Shown(4)
    /\ payment = "createBooking"
    /\ confirmDisabled
    /\ toast = "none"
    /\ shownTotals.totalPrice # NoTotal

\* C29: at most one search request is in flight - a second submission
\* cannot start another while handleSearch is awaiting - so the offers
\* shown on FlightResults are those of the criteria held in searchData
C29_OneSearchInFlight ==
    /\ Len(pendingSearches) <= 1
    /\ (Shown(2) /\ flights # <<>>) => flights = searchFlightsAPI(bookingState.searchData)

-----------------------------------------------------------------------------
(* The pending-search slot *)

\* C30: a page load that finds search criteria in 'flightSearch' leaves
\* them in searchData and leaves the slot empty; a load that finds the slot
\* empty leaves it empty, so that no load consumes the same criteria again
C30_PendingSearchConsumedOnce ==
    [][LoadStep =>
        /\ lsFlightSearch' = Absent
        /\ lsFlightSearch # Absent => bookingState'.searchData = lsFlightSearch]_vars

\* C30 witness: the wizard has loaded the criteria the home page wrote
\* (only the home page gives a tripType) and the slot is empty
C30_Witness ==
    /\ listening
    /\ lsFlightSearch = Absent
    /\ Truthy(bookingState.searchData)
    /\ "tripType" \in DOMAIN bookingState.searchData
    /\ homePc = "idle"

-----------------------------------------------------------------------------
(* Confirmation is entered from Payment *)

\* C31: apart from a page load restoring a saved session, currentStep
\* becomes 5 only in a step taken from currentStep = 4: an attempt that ends
\* after the user went back does not jump from step 1, 2 or 3 to Confirmation
C31_ConfirmationOnlyFromPayment ==
    [][(~LoadStep /\ bookingState.currentStep # 5 /\ bookingState'.currentStep = 5)
        => bookingState.currentStep = 4]_vars

-----------------------------------------------------------------------------
(* The confirm attempt ends *)

\* the confirm control as the page served it: enabled, with its own label
ConfirmControlReady == ~confirmDisabled /\ confirmLabel = TemplateLabel

\* C32: every confirm attempt that passed validation ends, and when it ends -
\* with the confirmation shown or with "Payment failed" - the confirm control
\* is enabled again and carries the label it had before the click
C32_ConfirmAttemptEnds ==
    /\ (payment # "idle") ~> (payment = "idle" /\ ConfirmControlReady)
    /\ [][BookingCreated => (~confirmDisabled' /\ confirmLabel' = originalText
                             /\ originalText = TemplateLabel)]_vars
    /\ [](payment = "idle" => ConfirmControlReady)

\* C32 witness: an attempt has ended with "Payment failed" (the session
\* could not be saved) and left the control ready on Payment
C32_Witness ==
    /\ Shown(4)
    /\ payment = "idle"
    /\ toast = "Payment failed. Please try again."
    /\ ConfirmControlReady
    /\ Truthy(bookingState.bookingDetails)

-----------------------------------------------------------------------------
(* A page load with a saved session and pending criteria *)

\* this step is a load of the booking page that finds both slots filled
LoadWithBoth == LoadStep /\ lsBookingState # Absent /\ lsFlightSearch # Absent

\* C33: a page load that finds a saved session and pending criteria replaces
\* searchData only: the other five fields are the saved ones and the view
\* shown is the saved step, not Search
C33_LoadReplacesSearchDataOnly ==
    [][LoadWithBoth =>
        LET saved == JSONParse(lsBookingState)
        IN  /\ bookingState' = [saved EXCEPT !.searchData = lsFlightSearch]
            /\ activeStep' = saved.currentStep
            /\ progress' = saved.currentStep - 1]_vars

\* C33 witness: loaded at PassengerDetails with the home page's criteria
\* (only the home page gives a tripType) and the flight selected before
C33_Witness ==
    /\ Shown(3)
    /\ bookingState.currentStep = 3
    /\ Truthy(bookingState.selectedFlight)
    /\ Truthy(bookingState.searchData)
    /\ "tripType" \in DOMAIN bookingState.searchData
    /\ flights = <<>>
    /\ lsFlightSearch = Absent

-----------------------------------------------------------------------------
(* The progress indicator *)

\* C34: whenever no handler is running the progress indicator marks the
\* entry with index currentStep - 1 as active (and the entries before it as
\* completed), also after a flight was selected, after the payment summary
\* was updated and after the confirmation was shown
C34_ProgressFollowsStep ==
    NoHandlerRunning => progress = bookingState.currentStep - 1

-----------------------------------------------------------------------------
(* The home page's search control *)

\* C35: when the home page's write of 'flightSearch' fails no redirect is
\* scheduled, the error is shown and the search control is enabled again with
\* its original label; when it succeeds the control stays disabled until the
\* redirect; the slot is written once for an accepted submission
C35_HomeSaveOutcome ==
    /\ [][(HomeSave /\ storageFull) =>
            /\ homePc' = "idle"
            /\ homeToast' = "Error saving search data. Please try again."
            /\ searchBtn' = SearchBtnServed
            /\ lsFlightSearch' = lsFlightSearch]_vars
    /\ [](homePc \in {"saving", "redirecting"} => searchBtn.disabled)
    /\ [][lsFlightSearch' \notin {lsFlightSearch, Absent} =>
            (homePc = "saving" /\ homePc' = "redirecting" /\ lsFlightSearch' = homeFormData)]_vars
    /\ [][HomeSubmit => homePc = "idle"]_vars

\* C35 witness: the write failed and the control is ready for another try
C35_Witness ==
    /\ homeToast = "Error saving search data. Please try again."
    /\ homePc = "idle"
    /\ searchBtn = SearchBtnServed
    /\ lsFlightSearch = Absent

-----------------------------------------------------------------------------
(* The passenger counts of the pending search *)

\* C36: the passenger counts an accepted home-page submission writes to
\* 'flightSearch' are the counts chosen in the passenger selector, as they
\* were when the form was submitted - with home.js, whose timer writes the
\* formData of the submission, and with the older script, which writes at once
C36_SlotHoldsChosenCounts ==
    /\ [][(HomeSubmit /\ homePc' = "saving") => homeFormData'.passengers = homePassengers]_vars
    /\ [][HomeSave => (lsFlightSearch' = lsFlightSearch
                       \/ lsFlightSearch'.passengers = homeFormData.passengers)]_vars
    /\ [][(LegacySubmit /\ lsFlightSearch' # lsFlightSearch)
            => lsFlightSearch'.passengers = localPassengers]_vars

-----------------------------------------------------------------------------
(* isValidExpiryDate *)

\* month and two-digit year of a string of the form MM/YY, counted in months
MonthsOf(yy, mm) == 12 * yy + mm

\* two digits, "/", two digits, a month of the calendar, not before the
\* current month of the current two-digit year
ExpiryAccepted(e, today) ==
    /\ Len(e) = 5
    /\ \A i \in {1, 2, 4, 5} : e[i] \in Digits
    /\ e[3] = "/"
    /\ TwoDigits(e, 1) >= 1
    /\ TwoDigits(e, 1) <= 12
    /\ MonthsOf(TwoDigits(e, 4), TwoDigits(e, 1)) >= MonthsOf(today.year % 100, today.month)

\* the messages validatePaymentForm shows for the expiry date
ExpiryMessages == {"Please enter expiry date", "Please enter a valid expiry date (MM/YY)"}

\* C37: isValidExpiryDate accepts a string if and only if it is two digits,
\* "/", two digits, with a month from 1 to 12 and (year, month) not earlier
\* than (current year mod 100, current month); the current month is accepted
C37_ExpiryAcceptedIff ==
    [][(cardForm = NoCard /\ cardForm' # NoCard) =>
        (toast' \notin ExpiryMessages) = ExpiryAccepted(cardForm'.cardExpiry, now)]_vars

\* C37 witness: in December 2099 the card that expires in 12/99 is accepted
C37_Witness ==
    /\ now = [year |-> 2099, month |-> 12]
    /\ cardForm.cardExpiry = <<"1", "2", "/", "9", "9">>
    /\ toast = "none"
    /\ payment = "processPayment"

-----------------------------------------------------------------------------
(* formatCardNumber *)

\* the number of digits in a value of #cardNumber
DigitCount(v) == Cardinality({k \in DOMAIN v : v[k] \in Digits})

\* digits in groups of four, one space between two groups and none at the
\* end, at most 19 characters and 16 digits
WellFormatted(v) ==
    /\ Len(v) <= 19
    /\ DigitCount(v) <= 16
    /\ Len(v) % 5 # 0 \/ v = <<>>
    /\ \A k \in DOMAIN v : IF k % 5 = 0 THEN v[k] = " " ELSE v[k] \in Digits

\* the messages validatePaymentForm shows for the card number
CardNumberMessages == {"Please enter card number", "Please enter a valid card number"}

\* C38: the value formatCardNumber leaves in #cardNumber holds digits only,
\* with a single space after each complete group of four that more digits
\* follow, is at most 19 characters (16 digits) long and is left unchanged by
\* formatting it again; a number typed through the field passes
\* isValidCardNumber exactly when it has 13 to 16 digits
C38_FormattedCardNumber ==
    /\ [](/\ WellFormatted(cardForm.cardNumber)
          /\ formatCardNumber(cardForm.cardNumber) = cardForm.cardNumber)
    /\ [][ConfirmTypedCard =>
            ((toast' \notin CardNumberMessages) = (DigitCount(cardForm.cardNumber) \in 13..16))]_vars

\* C38 witness: twenty digits were pasted, sixteen of them are in the field,
\* and the confirm click has let the number through
C38_Witness ==
    /\ cardForm.cardNumber = SubSeq(GroupFours(Card20), 1, 19)
    /\ DigitCount(cardForm.cardNumber) = 16
    /\ payment = "processPayment"
    /\ toast = "none"

====
